---- MODULE Spec2Model ----
(***************************************************************************)
(* A model of the read-only FAT32 driver (crate fat32): the sector cache   *)
(* (vfat/cache.rs), the volume engine's FAT traversal (vfat/vfat.rs) and   *)
(* the File byte stream (vfat/file.rs), the boot structures (mbr.rs,       *)
(* vfat/ebpb.rs) and the directory decoder (vfat/dir.rs).  Bytes are       *)
(* numbers 0..255, a sector is a sequence of bytes, Rust's 0-based slices  *)
(* are read through Slice and written through WriteAt.                     *)
(***************************************************************************)
EXTENDS Integers, Sequences, FiniteSets, TLC

VARIABLES
    disk,       \* BlockDevice: physical sector index -> its bytes
    fault,      \* BlockDevice: which physical sector currently misbehaves, and how
    partition,  \* CachedDevice.partition: [start, sector_size]
    cache,      \* CachedDevice.cache: sector -> [data, dirty]
    vfat,       \* VFat geometry fields
    chain,      \* the activation of VFat::read_chain: pc, cluster_cursor, bytes_read, buf
    file,       \* File: metadata.size, start_cluster, offset, data
    dir,        \* DirIter: dir_entries, the records not yet popped (reversed)
    last,       \* the last completed call: its arguments, result and device reads
    hist        \* history: what has happened so far

vars == <<disk, fault, partition, cache, vfat, chain, file, dir, last, hist>>

----------------------------------------------------------------------------
(* Bounds of the model *)

\* device.sector_size(), in bytes (a real device has 512)
DevSectorSize == 4
\* the sector cache is asked for sectors 0..MaxSector
MaxSector == 2
\* the FAT has the slots 0..MaxCluster
MaxCluster == 3
\* read_chain is followed for at most this many loop iterations
MaxChainSteps == 4

\* partition.sector_size is DevSectorSize times one of these
Factors == {1, 2}
\* the values of sectors_per_cluster
SectorsPerCluster == {1, 2}

----------------------------------------------------------------------------
(* Rust slices and vectors *)

Min(a, b) == IF a < b THEN a ELSE b

\* vec![0; n]
Zeros(n) == [i \in 1..n |-> 0]

\* &s[from..from + len]
Slice(s, from, len) == [i \in 1..len |-> s[from + i]]

\* buf[off..off + Len(src)].copy_from_slice(src)
WriteAt(buf, off, src) ==
    [i \in 1..Len(buf) |->
        IF i > off /\ i <= off + Len(src) THEN src[i - off] ELSE buf[i]]

----------------------------------------------------------------------------
(* The block device (an external collaborator) *)

NoFault == [sector |-> -1, kind |-> "ok"]

FaultAt(p) == IF fault.sector = p THEN fault.kind ELSE "ok"

\* a short read serves this many bytes of the sector
ShortLen == DevSectorSize \div 2

\* BlockDevice::read_sector(n, buf), buf of the device's sector size: Err, or
\* Ok(served) with the first served bytes of buf overwritten.
DeviceReadSector(n, buf) ==
    IF n \notin DOMAIN disk \/ FaultAt(n) = "err"
    THEN [ok |-> FALSE, served |-> -1, buf |-> buf]
    ELSE LET k == IF FaultAt(n) = "short" THEN ShortLen ELSE DevSectorSize
         IN  [ok |-> TRUE, served |-> k, buf |-> WriteAt(buf, 0, Slice(disk[n], 0, k))]

----------------------------------------------------------------------------
(* CachedDevice (vfat/cache.rs) *)

\* virtual_to_physical with the logical offset not scaled by the factor
virtual_to_physical_unscaled(virt) ==
    IF DevSectorSize = partition.sector_size THEN <<virt, 1>>
    ELSE IF virt < partition.start THEN <<virt, 1>>
    ELSE LET factor == partition.sector_size \div DevSectorSize
             logical_offset == virt - partition.start
             physical_sector == partition.start + logical_offset
         IN  <<physical_sector, factor>>

\* the pair (physical sector, number of physical sectors)
virtual_to_physical(virt) ==
    IF DevSectorSize = partition.sector_size THEN <<virt, 1>>
    ELSE IF virt < partition.start THEN <<virt, 1>>
    ELSE LET factor == partition.sector_size \div DevSectorSize
             logical_offset == virt - partition.start
             physical_offset == logical_offset * factor
             physical_sector == partition.start + physical_offset
         IN  <<physical_sector, factor>>

\* the loop of read_sector_from_disk from iteration i on; reads logs each
\* device call: the physical sector, the buffer offset, the bytes served
RECURSIVE FillFromDisk(_, _, _, _, _)
FillFromDisk(data, physical_sector, num_sectors, i, reads) ==
    IF i >= num_sectors THEN [ok |-> TRUE, data |-> data, reads |-> reads]
    ELSE LET start == i * DevSectorSize
             r == DeviceReadSector(physical_sector + i,
                                   Slice(data, start, DevSectorSize))
             log == Append(reads, [sector |-> physical_sector + i,
                                   start |-> start, served |-> r.served])
         IN  IF ~r.ok THEN [ok |-> FALSE, data |-> <<>>, reads |-> log]
             ELSE FillFromDisk(WriteAt(data, start, r.buf), physical_sector,
                               num_sectors, i + 1, log)

read_sector_from_disk(virt) ==
    LET vp == virtual_to_physical(virt)
        sector_size == partition.sector_size
        data == Zeros(sector_size * vp[2])
    IN  FillFromDisk(data, vp[1], vp[2], 0, <<>>)

CacheInsert(c, sector, entry) ==
    [s \in (DOMAIN c) \cup {sector} |-> IF s = sector THEN entry ELSE c[s]]

\* a miss branch that caches the sector also when the device read failed
get_miss_caching_failure(c, sector, r) ==
    [ok |-> r.ok,
     cache |-> CacheInsert(c, sector, [data |-> r.data, dirty |-> FALSE]),
     view |-> r.data, reads |-> r.reads]

\* the miss branch of get: the entry inserted clean from the bytes r read
get_miss(c, sector, r) ==
    IF ~r.ok
    THEN [ok |-> FALSE, cache |-> c, view |-> <<>>, reads |-> r.reads]
    ELSE [ok |-> TRUE,
          cache |-> CacheInsert(c, sector, [data |-> r.data, dirty |-> FALSE]),
          view |-> r.data, reads |-> r.reads]

\* get without the lookup: the sector is read from the device on every call
get_uncached(c, sector) == get_miss(c, sector, read_sector_from_disk(sector))

\* CachedDevice::get on the cache c: the new cache, Ok(view) or Err
get(c, sector) ==
    IF sector \notin DOMAIN c
    THEN get_miss(c, sector, read_sector_from_disk(sector))
    ELSE [ok |-> TRUE, cache |-> c, view |-> c[sector].data, reads |-> <<>>]

\* the miss branch of get_mut: the entry inserted dirty from the bytes r read
get_mut_miss(c, sector, r) ==
    IF ~r.ok
    THEN [ok |-> FALSE, cache |-> c, view |-> <<>>, reads |-> r.reads]
    ELSE [ok |-> TRUE,
          cache |-> CacheInsert(c, sector, [data |-> r.data, dirty |-> TRUE]),
          view |-> r.data, reads |-> r.reads]

\* get_mut that marks only the entry it inserts, not one already cached
get_mut_insert_only(c, sector) ==
    IF sector \notin DOMAIN c
    THEN get_mut_miss(c, sector, read_sector_from_disk(sector))
    ELSE [ok |-> TRUE, cache |-> c, view |-> c[sector].data, reads |-> <<>>]

\* CachedDevice::get_mut on the cache c
get_mut(c, sector) ==
    IF sector \notin DOMAIN c
    THEN get_mut_miss(c, sector, read_sector_from_disk(sector))
    ELSE [ok |-> TRUE, cache |-> [c EXCEPT ![sector].dirty = TRUE],
          view |-> c[sector].data, reads |-> <<>>]

----------------------------------------------------------------------------
(* FAT entries (vfat/fat.rs) *)

FAT_ENTRY_SIZE == 4
U16 == 65536

\* the 28 significant bits of a raw little-endian entry
FatValue(raw) == raw[1] + 256 * raw[2] + 65536 * raw[3] + 16777216 * (raw[4] % 16)

\* FatEntry::status
status(raw) ==
    LET v == FatValue(raw)
    IN  IF v = 0 THEN [kind |-> "Free", next |-> 0]
        ELSE IF v = 1 THEN [kind |-> "Reserved", next |-> 0]
        ELSE IF v <= 268435439 THEN [kind |-> "Data", next |-> v]
        ELSE IF v <= 268435446 THEN [kind |-> "Reserved", next |-> 0]
        ELSE IF v = 268435447 THEN [kind |-> "Bad", next |-> 0]
        ELSE [kind |-> "Eoc", next |-> 0]

----------------------------------------------------------------------------
(* VFat (vfat/vfat.rs) *)

\* read_sector's copy of the cached sector g into a buffer of length len
read_sector_copy(g, len) ==
    LET amount_to_read == Min(partition.sector_size, len)
    IN  IF ~g.ok THEN [res |-> "Io", cache |-> g.cache, bytes |-> <<>>, n |-> 0]
        ELSE IF len # amount_to_read
        THEN [res |-> "Panic", cache |-> g.cache, bytes |-> <<>>, n |-> 0]
        ELSE [res |-> "Ok", cache |-> g.cache,
              bytes |-> Slice(g.view, 0, amount_to_read), n |-> amount_to_read]

\* <CachedDevice as BlockDevice>::read_sector into a buffer of length len
read_sector(c, n, len) == read_sector_copy(get(c, n), len)

\* fat_entry's decoding of the cached FAT sector g at byte idx
fat_entry_at(g, idx) ==
    IF ~g.ok THEN [ok |-> FALSE, cache |-> g.cache, raw |-> <<>>]
    ELSE [ok |-> TRUE, cache |-> g.cache, raw |-> Slice(g.view, idx, 4)]

\* fat_entry: the raw entry of the cluster, read through the cache
fat_entry(c, cluster) ==
    LET entries_per_sector == vfat.bytes_per_sector \div FAT_ENTRY_SIZE
        fat_sector_index == cluster \div entries_per_sector
        fat_entry_index == cluster % entries_per_sector
        idx == fat_entry_index * FAT_ENTRY_SIZE
    IN  fat_entry_at(get(c, vfat.fat_start_sector + fat_sector_index), idx)

\* read_cluster's first sector, counting clusters from 0 instead of 2
start_read_sector_from_zero(cluster) ==
    vfat.data_start_sector + cluster * vfat.sectors_per_cluster

\* read_cluster: the first sector of the cluster
start_read_sector(cluster) ==
    vfat.data_start_sector
        + (IF cluster >= 2 THEN cluster - 2 ELSE 0) * vfat.sectors_per_cluster

RECURSIVE ReadClusterLoop(_, _, _, _, _)

\* the body of read_cluster's loop once sector i has been read with result r
ReadClusterStore(r, first, buf, i, bytes_read, start_byte) ==
    IF r.res # "Ok"
    THEN [res |-> r.res, cache |-> r.cache, buf |-> buf, n |-> bytes_read]
    ELSE ReadClusterLoop(r.cache, first, WriteAt(buf, start_byte, r.bytes),
                         i + 1, bytes_read + r.n)

\* the loop of read_cluster from sector i of the cluster on
ReadClusterLoop(c, first, buf, i, bytes_read) ==
    IF i >= vfat.sectors_per_cluster
    THEN [res |-> "Ok", cache |-> c, buf |-> buf, n |-> bytes_read]
    ELSE LET start_byte == (i * vfat.bytes_per_sector) % U16
         IN  IF start_byte + vfat.bytes_per_sector > Len(buf)
             THEN [res |-> "Panic", cache |-> c, buf |-> buf, n |-> bytes_read]
             ELSE ReadClusterStore(read_sector(c, first + i, vfat.bytes_per_sector),
                                   first, buf, i, bytes_read, start_byte)

read_cluster(c, cluster, buf) ==
    ReadClusterLoop(c, start_read_sector(cluster), buf, 0, 0)

\* the match of read_chain with the Free/Reserved/Bad arm ending the chain
\* like an Eoc entry
chain_arm_lenient(st) == IF st.kind = "Data" THEN "Data" ELSE "Eoc"

\* the match of read_chain on the status of the cursor's entry
chain_arm(st) ==
    IF st.kind = "Data" THEN "Data"
    ELSE IF st.kind = "Eoc" THEN "Eoc"
    ELSE "Invalid"

\* the Data and Eoc arms of read_chain once read_cluster has returned rc into
\* the resized buffer grown
read_chain_arm(a, st, grown, rc) ==
    LET read == [a EXCEPT !.buf = WriteAt(grown, a.bytes_read, rc.buf),
                          !.visited = Append(@, a.cluster_cursor)]
    IN  IF rc.res # "Ok"
        THEN [cache |-> rc.cache,
              act |-> [read EXCEPT !.pc = "done", !.result = rc.res]]
        ELSE IF chain_arm(st) = "Data"
        THEN [cache |-> rc.cache,
              act |-> [read EXCEPT !.bytes_read = @ + rc.n,
                                   !.cluster_cursor = st.next]]
        ELSE [cache |-> rc.cache,
              act |-> [read EXCEPT !.pc = "done", !.result = "Ok",
                                   !.bytes_read = @ + rc.n]]

\* the body of read_chain's loop once fat_entry has returned fe
read_chain_match(a, fe) ==
    IF ~fe.ok
    THEN [cache |-> fe.cache, act |-> [a EXCEPT !.pc = "done", !.result = "Io"]]
    ELSE
    LET st == status(fe.raw)
        seen == [a EXCEPT !.entries = Append(@, fe.raw)]
        grown == a.buf \o Zeros(vfat.bytes_per_sector * vfat.sectors_per_cluster)
        tail == Slice(grown, a.bytes_read, Len(grown) - a.bytes_read)
    IN  IF chain_arm(st) = "Invalid"
        THEN [cache |-> fe.cache,
              act |-> [seen EXCEPT !.pc = "done", !.result = "InvalidData"]]
        ELSE read_chain_arm(seen, st, grown,
                            read_cluster(fe.cache, a.cluster_cursor, tail))

\* one iteration of read_chain's loop, on the cache c and the activation a
read_chain_iteration(c, a) ==
    read_chain_match([a EXCEPT !.steps = @ + 1], fat_entry(c, a.cluster_cursor))

\* read_chain(start, buf) entered with an empty buf
read_chain_entry(start) ==
    [pc |-> "loop", start |-> start, cluster_cursor |-> start, bytes_read |-> 0,
     buf |-> <<>>, result |-> "", steps |-> 0, visited |-> <<>>, entries |-> <<>>]

RECURSIVE read_chain_run(_, _)

\* the loop of read_chain continued from the iteration result r
read_chain_continue(r) == read_chain_run(r.cache, r.act)

\* read_chain's loop, run until it returns; an activation still in the loop
\* after MaxChainSteps iterations follows a cycle of the FAT and never returns
read_chain_run(c, a) ==
    IF a.pc = "done" \/ a.steps >= MaxChainSteps THEN [cache |-> c, act |-> a]
    ELSE read_chain_continue(read_chain_iteration(c, a))

\* read_chain(start, &mut Vec::new()) as one call
read_chain(c, start) == read_chain_run(c, read_chain_entry(start))

----------------------------------------------------------------------------
(* File (vfat/file.rs) *)

None == [some |-> FALSE, bytes |-> <<>>]
Some(bytes) == [some |-> TRUE, bytes |-> bytes]

\* File::new
FileNew(size, start_cluster) ==
    [size |-> size, start_cluster |-> start_cluster, offset |-> 0, data |-> None]

\* the None arm of initialize once read_chain has returned rc
initialize_store(f, rc) ==
    IF rc.act.pc # "done"
    THEN [res |-> "Hang", cache |-> rc.cache, file |-> f, called |-> TRUE]
    ELSE IF rc.act.result # "Ok"
    THEN [res |-> rc.act.result, cache |-> rc.cache, file |-> f, called |-> TRUE]
    ELSE [res |-> "Ok", cache |-> rc.cache,
          file |-> [f EXCEPT !.data = Some(rc.act.buf)], called |-> TRUE]

\* File::initialize
initialize(c, f) ==
    IF f.data.some THEN [res |-> "Ok", cache |-> c, file |-> f, called |-> FALSE]
    ELSE initialize_store(f, read_chain(c, f.start_cluster))

\* <File as io::Seek>::seek; pos is [kind, off] for SeekFrom::Start(off),
\* SeekFrom::End(off) and SeekFrom::Current(off)
seek(f, pos) ==
    LET new_offset ==
            IF pos.kind = "Start" THEN pos.off
            ELSE IF pos.kind = "End" THEN f.size - pos.off
            ELSE f.offset + pos.off
    IN  IF new_offset < 0 \/ new_offset > f.size
        THEN [ok |-> FALSE, err |-> "InvalidInput", file |-> f, pos |-> -1]
        ELSE [ok |-> TRUE, err |-> "", file |-> [f EXCEPT !.offset = new_offset],
              pos |-> new_offset]

\* read's last step: the seek by the bytes copied
read_advance(sk, num_bytes_to_read, bytes) ==
    IF ~sk.ok
    THEN [res |-> sk.err, file |-> sk.file, n |-> 0, bytes |-> <<>>]
    ELSE [res |-> "Ok", file |-> sk.file, n |-> num_bytes_to_read, bytes |-> bytes]

\* read after initialize, into a buffer of length len
read_copy(f, len) ==
    LET num_bytes_to_read == Min(len, f.size - f.offset)
    IN  IF f.offset + num_bytes_to_read > Len(f.data.bytes)
        THEN [res |-> "Panic", file |-> f, n |-> 0, bytes |-> <<>>]
        ELSE read_advance(seek(f, [kind |-> "Current", off |-> num_bytes_to_read]),
                          num_bytes_to_read,
                          Slice(f.data.bytes, f.offset, num_bytes_to_read))

\* read once initialize has returned init
read_initialized(init, len) ==
    IF init.res # "Ok"
    THEN [res |-> init.res, cache |-> init.cache, file |-> init.file,
          n |-> 0, bytes |-> <<>>, called |-> init.called]
    ELSE [cache |-> init.cache, called |-> init.called] @@ read_copy(init.file, len)

\* a read that materializes the chain on every call, cached or not
read_rematerializing(c, f, len) ==
    read_initialized(initialize_store(f, read_chain(c, f.start_cluster)), len)

\* <File as io::Read>::read into a buffer of length len
read(c, f, len) ==
    IF ~f.data.some THEN read_initialized(initialize(c, f), len)
    ELSE read_initialized([res |-> "Ok", cache |-> c, file |-> f, called |-> FALSE], len)

----------------------------------------------------------------------------
(* The device image *)

\* the number of physical sectors of a device that holds logical sectors
\* 0..n-1 of a partition starting at start with the given factor
NumPhys(start, factor, n) == start + (n - start) * factor

\* a byte pattern that tells every byte of the device apart
PatternByte(p, j) == ((p * DevSectorSize + j) % 250) + 1

PatternDisk(n) == [p \in 0..(n - 1) |-> [j \in 1..DevSectorSize |-> PatternByte(p, j)]]

\* the little-endian bytes of a FAT entry of value v whose four reserved top
\* bits hold hi
FatBytes(v, hi) ==
    <<v % 256, (v \div 256) % 256, (v \div 65536) % 256, (v \div 16777216) + 16 * hi>>

\* the geometry VFat::from derives from an EBPB at sector 1 with one reserved
\* sector and one FAT that holds the slots 0..MaxCluster
Volume(factor, spc) ==
    LET bpb_offset == 1
        bytes_per_sector == factor * DevSectorSize
        reserved_sectors == 1
        num_fats == 1
        entries == bytes_per_sector \div FAT_ENTRY_SIZE
        sectors_per_fat == (MaxCluster + entries) \div entries
        fat_start_sector == bpb_offset + reserved_sectors
        data_start_sector == fat_start_sector + sectors_per_fat * num_fats
    IN  [partition |-> [start |-> bpb_offset, sector_size |-> bytes_per_sector],
         vfat |-> [bytes_per_sector |-> bytes_per_sector,
                   sectors_per_cluster |-> spc,
                   sectors_per_fat |-> sectors_per_fat,
                   fat_start_sector |-> fat_start_sector,
                   data_start_sector |-> data_start_sector,
                   root_dir_cluster |-> 2]]

\* the logical sectors of the volume: boot area, FAT, clusters 2..MaxCluster
VolumeSectors(v) ==
    v.vfat.data_start_sector + (MaxCluster - 1) * v.vfat.sectors_per_cluster

\* the image of a volume v whose FAT slot c holds fat[c]
VolumeImage(v, fat, hi) ==
    LET start == v.partition.start
        bps == v.vfat.bytes_per_sector
        entries == bps \div FAT_ENTRY_SIZE
        n == NumPhys(start, bps \div DevSectorSize, VolumeSectors(v))
        ByteAt(p, j) ==
            LET lin == (p - start) * DevSectorSize + (j - 1)
                sector == start + lin \div bps
                off == lin % bps
                slot == (sector - v.vfat.fat_start_sector) * entries + off \div FAT_ENTRY_SIZE
            IN  IF p < start \/ sector < v.vfat.fat_start_sector
                      \/ sector >= v.vfat.data_start_sector
                THEN PatternByte(p, j)
                ELSE IF off < entries * FAT_ENTRY_SIZE /\ slot <= MaxCluster
                THEN FatBytes(fat[slot], hi)[(off % FAT_ENTRY_SIZE) + 1]
                ELSE 0
    IN  [p \in 0..(n - 1) |-> [j \in 1..DevSectorSize |-> ByteAt(p, j)]]

----------------------------------------------------------------------------
(* The sector cache on its own: any sequence of get and get_mut calls on a  *)
(* device whose sectors may fail or read short                              *)

NoCall == [op |-> "none"]

IdleChain == [pc |-> "idle"]
NoFile == [size |-> 0]
NoDir == [some |-> FALSE]
NoVFat == [bytes_per_sector |-> 0]

CachePartitions ==
    { [start |-> 1, sector_size |-> f * DevSectorSize] : f \in Factors }

CacheDiskSize == NumPhys(1, 2, MaxSector + 1)

FaultChoices(n) ==
    {NoFault} \cup { [sector |-> p, kind |-> k] : p \in 0..(n - 1), k \in {"err", "short"} }

InitCache ==
    /\ partition \in CachePartitions
    /\ disk = PatternDisk(CacheDiskSize)
    /\ fault = NoFault
    /\ cache = <<>>
    /\ vfat = NoVFat
    /\ chain = IdleChain
    /\ dir = NoDir
    /\ file = NoFile
    /\ last = NoCall
    /\ hist = [mutOk |-> {}, inserted |-> {}]

\* the environment: a sector of the device starts or stops misbehaving
DeviceChange ==
    /\ \E f \in FaultChoices(Cardinality(DOMAIN disk)) : fault' = f /\ f # fault
    /\ UNCHANGED <<dir, disk, partition, cache, vfat, chain, file, last, hist>>

Get ==
    \E sector \in 0..MaxSector :
        LET r == get(cache, sector)
        IN  /\ cache' = r.cache
            /\ last' = [op |-> "get", sector |-> sector, hit |-> sector \in DOMAIN cache,
                        ok |-> r.ok, view |-> r.view, reads |-> r.reads]
            /\ hist' = [hist EXCEPT !.inserted = @ \cup (DOMAIN r.cache)]
            /\ UNCHANGED <<dir, disk, fault, partition, vfat, chain, file>>

GetMut ==
    \E sector \in 0..MaxSector :
        LET r == get_mut(cache, sector)
        IN  /\ cache' = r.cache
            /\ last' = [op |-> "get_mut", sector |-> sector, hit |-> sector \in DOMAIN cache,
                        ok |-> r.ok, view |-> r.view, reads |-> r.reads]
            /\ hist' = [hist EXCEPT !.inserted = @ \cup (DOMAIN r.cache),
                                    !.mutOk = IF r.ok THEN @ \cup {sector} ELSE @]
            /\ UNCHANGED <<dir, disk, fault, partition, vfat, chain, file>>

NextCache == DeviceChange \/ Get \/ GetMut

SpecCache == InitCache /\ [][NextCache]_vars

CacheCall == last.op \in {"get", "get_mut"}

\* C6: a sector is read from the device only until an access to it has
\* succeeded: a get that misses and succeeds inserts a clean entry, no entry
\* ever leaves the cache, and a get or get_mut of a cached sector reads nothing
\* from the device and returns the cached bytes.
C6_ReadThroughOnce ==
    /\ hist.inserted \subseteq DOMAIN cache
    /\ (CacheCall /\ last.hit) =>
            /\ last.reads = <<>>
            /\ last.ok
            /\ last.view = cache[last.sector].data
    /\ (last.op = "get" /\ ~last.hit /\ last.ok) =>
            /\ last.sector \in DOMAIN cache
            /\ ~cache[last.sector].dirty
            /\ last.view = cache[last.sector].data

\* a get of a sector that an earlier call has cached
C6_Witness == last.op = "get" /\ last.hit /\ last.ok /\ Cardinality(DOMAIN cache) >= 2

\* C7: a cached sector is dirty exactly when get_mut has succeeded on it.
C7_DirtyIffGetMut ==
    /\ hist.mutOk \subseteq DOMAIN cache
    /\ \A s \in DOMAIN cache : cache[s].dirty <=> s \in hist.mutOk

\* get_mut on a sector that a get had cached clean, next to a clean entry
C7_Witness ==
    /\ last.op = "get_mut" /\ last.hit /\ last.ok
    /\ cache[last.sector].dirty
    /\ \E s \in DOMAIN cache : ~cache[s].dirty

\* the physical sectors a miss on logical sector n has to read, in order
C8_Expected(n) ==
    IF n < partition.start THEN <<n>>
    ELSE LET factor == partition.sector_size \div DevSectorSize
         IN  [i \in 1..factor |-> partition.start + (n - partition.start) * factor + (i - 1)]

\* C8: a miss on sector n below partition.start reads physical sector n
\* alone; a miss on n at or after it reads the factor physical sectors from
\* partition.start + (n - partition.start) * factor on, ascending, the i-th
\* into the buffer at i times the physical sector size; a read that fails
\* ends the sequence.
C8_AddressTranslation ==
    (CacheCall /\ ~last.hit) =>
        LET exp == C8_Expected(last.sector)
            n == Len(last.reads)
        IN  /\ n >= 1 /\ n <= Len(exp)
            /\ \A i \in 1..n :
                   /\ last.reads[i].sector = exp[i]
                   /\ last.reads[i].start = (i - 1) * DevSectorSize
                   /\ (i < n) => last.reads[i].served >= 0
            /\ last.ok <=> (n = Len(exp) /\ last.reads[n].served >= 0)
            /\ last.ok =>
                   \A i \in 1..n : \A j \in 1..last.reads[i].served :
                       last.view[(i - 1) * DevSectorSize + j] = disk[exp[i]][j]

\* a miss on the second sector of a partition whose sectors span two physical ones
C8_Witness ==
    /\ CacheCall /\ ~last.hit /\ last.ok
    /\ last.sector = partition.start + 1
    /\ Len(last.reads) = 2

\* C9: a cached buffer of a sector at or after partition.start has the
\* logical sector size, one of a sector before it the physical sector size.
C9_BufferLengths ==
    \A s \in DOMAIN cache :
        Len(cache[s].data) =
            IF s >= partition.start THEN partition.sector_size ELSE DevSectorSize

\* C10: a get or get_mut during which a physical read failed, or served
\* fewer bytes than the physical sector size, fails.
C10_NoPartialRead ==
    (CacheCall /\ \E i \in 1..Len(last.reads) : last.reads[i].served < DevSectorSize)
        => ~last.ok

\* C28: a get or get_mut that fails leaves the cache as it was, every entry
\* and dirty flag included, and inserts nothing for its sector; the sector is
\* not cached afterwards, and a get or get_mut of a sector that is not cached
\* reads the device.
C28_FailedCallLeavesCache ==
    /\ [][(last' # last /\ last'.op \in {"get", "get_mut"} /\ ~last'.ok)
              => cache' = cache]_vars
    /\ [](CacheCall =>
              /\ ~last.ok => (~last.hit /\ last.sector \notin DOMAIN cache)
              /\ ~last.hit => Len(last.reads) >= 1)

\* a get_mut fails on a sector while another sector is cached dirty and a
\* third clean
C28_Witness ==
    /\ last.op = "get_mut" /\ ~last.ok
    /\ \E s \in DOMAIN cache : cache[s].dirty
    /\ \E s \in DOMAIN cache : ~cache[s].dirty

----------------------------------------------------------------------------
(* The volume engine: one read_chain call, one loop iteration per step, on  *)
(* a volume with any FAT                                                    *)

\* the values a FAT slot holds: free, a link to a data cluster, reserved,
\* bad, end of chain
FatValues == {0, 268435440, 268435447, 268435448} \cup (2..MaxCluster)

\* slots 0 and 1 hold the media descriptor and the end-of-chain marker
Fats ==
    { [c \in 0..MaxCluster |-> IF c = 0 THEN 268435448 ELSE IF c = 1 THEN 268435455 ELSE f[c]] :
        f \in [2..MaxCluster -> FatValues] }

Volumes == { Volume(f, spc) : f \in Factors, spc \in SectorsPerCluster }

InitChain ==
    /\ \E v \in Volumes, fat \in Fats, hi \in {0, 15} :
          /\ partition = v.partition
          /\ vfat = v.vfat
          /\ disk = VolumeImage(v, fat, hi)
          /\ hist = [mutOk |-> {}, inserted |-> {}, fat |-> fat]
    /\ fault = NoFault
    /\ cache = <<>>
    /\ chain = IdleChain
    /\ dir = NoDir
    /\ file = NoFile
    /\ last = NoCall

\* the physical sectors that hold the start of the FAT and of the data region
FirstPhysical(sector) == partition.start + (sector - partition.start)
                            * (partition.sector_size \div DevSectorSize)

ChainFaults ==
    { [sector |-> p, kind |-> k] :
        p \in {FirstPhysical(vfat.fat_start_sector), FirstPhysical(vfat.data_start_sector)},
        k \in {"err", "short"} }

\* the environment: before the call a sector of the device starts misbehaving
ChainDeviceChange ==
    /\ chain.pc = "idle" /\ fault = NoFault
    /\ \E f \in ChainFaults : fault' = f
    /\ UNCHANGED <<dir, disk, partition, cache, vfat, chain, file, last, hist>>

ReadChainCall ==
    /\ chain.pc = "idle"
    /\ \E start \in 0..MaxCluster : chain' = read_chain_entry(start)
    /\ UNCHANGED <<dir, disk, fault, partition, cache, vfat, file, last, hist>>

ReadChainStep ==
    /\ chain.pc = "loop" /\ chain.steps < MaxChainSteps
    /\ LET r == read_chain_iteration(cache, chain)
       IN  cache' = r.cache /\ chain' = r.act
    /\ UNCHANGED <<dir, disk, fault, partition, vfat, file, last, hist>>

NextChain == ChainDeviceChange \/ ReadChainCall \/ ReadChainStep

SpecChain == InitChain /\ [][NextChain]_vars

\* whether the FAT value v links to a next cluster, or ends a chain
C1_IsLink(v) == v >= 2 /\ v <= 268435439
C1_IsEoc(v) == v >= 268435448

\* the clusters the FAT links from cluster c on, at most n of them
RECURSIVE C1_Links(_, _)
C1_Links(c, n) ==
    IF n = 0 THEN <<>>
    ELSE IF c \in DOMAIN hist.fat /\ C1_IsLink(hist.fat[c])
    THEN <<c>> \o C1_Links(hist.fat[c], n - 1)
    ELSE <<c>>

\* the chain from c is Data(c1), Data(c2), ..., ending in an Eoc entry
C1_EocTerminated(c) ==
    LET ch == C1_Links(c, MaxChainSteps)
        end == ch[Len(ch)]
    IN  end \in DOMAIN hist.fat /\ C1_IsEoc(hist.fat[end])

RECURSIVE C1_Flatten(_)
C1_Flatten(ss) == IF ss = <<>> THEN <<>> ELSE Head(ss) \o C1_Flatten(Tail(ss))

\* the bytes the device holds for logical sector n of the partition
C1_SectorBytes(n) ==
    LET factor == partition.sector_size \div DevSectorSize
    IN  C1_Flatten([j \in 1..factor |->
                       disk[partition.start + (n - partition.start) * factor + (j - 1)]])

\* the bytes the device holds for data cluster c
C1_ClusterBytes(c) ==
    C1_Flatten([i \in 1..vfat.sectors_per_cluster |->
                   C1_SectorBytes(vfat.data_start_sector
                                    + (c - 2) * vfat.sectors_per_cluster + (i - 1))])

\* C1: on a device that serves every read, read_chain entered with an empty
\* buffer on a chain that ends in an Eoc entry returns Ok within one loop
\* iteration per cluster, returns k times the bytes of a cluster for the k
\* clusters of the chain, has visited them in the order the FAT links them,
\* and holds the bytes of each data cluster at its place in that order.
C1_ReadChainEoc ==
    (chain.pc # "idle" /\ fault = NoFault /\ C1_EocTerminated(chain.start)) =>
        LET ch == C1_Links(chain.start, MaxChainSteps)
            k == Len(ch)
            cluster_bytes == vfat.sectors_per_cluster * vfat.bytes_per_sector
        IN  /\ chain.pc = "loop" => chain.steps < k
            /\ chain.pc = "done" =>
                  /\ chain.result = "Ok"
                  /\ chain.bytes_read = k * cluster_bytes
                  /\ Len(chain.buf) = k * cluster_bytes
                  /\ chain.visited = ch
                  /\ \A i \in 1..k :
                        ch[i] >= 2 =>
                            Slice(chain.buf, (i - 1) * cluster_bytes, cluster_bytes)
                                = C1_ClusterBytes(ch[i])

\* a chain of two clusters linked against their numeric order, each of two
\* logical sectors of two physical sectors
C1_Witness ==
    /\ chain.pc = "done" /\ chain.result = "Ok" /\ fault = NoFault
    /\ Len(chain.visited) = 2 /\ chain.visited[1] > chain.visited[2]
    /\ vfat.sectors_per_cluster = 2 /\ partition.sector_size = 2 * DevSectorSize

\* C2: once the entry of the start cluster or of a cluster linked from it
\* classifies as Free, Reserved or Bad, read_chain has returned, with an
\* InvalidData error and not with Ok.
C2_InvalidChain ==
    (chain.pc # "idle" /\ \E i \in 1..Len(chain.entries) :
                            status(chain.entries[i]).kind \in {"Free", "Reserved", "Bad"})
        => chain.pc = "done" /\ chain.result = "InvalidData"

\* a chain that reaches a Free entry after a cluster has been read
C2_Witness ==
    /\ chain.pc = "done" /\ chain.result = "InvalidData"
    /\ Len(chain.visited) >= 1 /\ Len(chain.buf) > 0
    /\ status(chain.entries[Len(chain.entries)]).kind = "Free"

\* a volume of one sector per cluster and one physical sector per sector,
\* whose FAT slots are free, end a chain or link to any cluster, on a device
\* that serves every read
InitChainLive ==
    /\ InitChain
    /\ partition.sector_size = DevSectorSize
    /\ vfat.sectors_per_cluster = 1
    /\ \A c \in 2..MaxCluster : hist.fat[c] \in {0, 268435448} \cup (2..MaxCluster)
    /\ disk = VolumeImage(Volume(1, 1), hist.fat, 0)

\* the Data and Eoc arms of read_chain_match on the entry fe
ReadChainArms(a, fe) ==
    LET grown == a.buf \o Zeros(vfat.bytes_per_sector * vfat.sectors_per_cluster)
        tail == Slice(grown, a.bytes_read, Len(grown) - a.bytes_read)
    IN  \E rc \in {read_cluster(fe.cache, a.cluster_cursor, tail)} :
            \E r \in {read_chain_arm([a EXCEPT !.entries = Append(@, fe.raw)],
                                      status(fe.raw), grown, rc)} :
                cache' = r.cache /\ chain' = r.act

\* one iteration of read_chain's loop on the activation a, as
\* read_chain_iteration
ReadChainLoop(a) ==
    \E fe \in {fat_entry(cache, a.cluster_cursor)} :
        IF fe.ok /\ chain_arm(status(fe.raw)) # "Invalid"
        THEN ReadChainArms([a EXCEPT !.steps = @ + 1], fe)
        ELSE \E r \in {read_chain_match([a EXCEPT !.steps = @ + 1], fe)} :
                cache' = r.cache /\ chain' = r.act

\* one iteration of read_chain's loop, as ReadChainStep
ReadChainWithin ==
    /\ chain.pc = "loop" /\ chain.steps < MaxChainSteps
    /\ ReadChainLoop(chain)
    /\ UNCHANGED <<dir, disk, fault, partition, vfat, file, last, hist>>

\* what the model keeps of an activation past MaxChainSteps iterations: the
\* cursor, and of the iteration count whether it is odd or even (the program
\* keeps, and grows, the whole buffer)
chain_beyond(a) ==
    [a EXCEPT !.steps = IF a.steps = MaxChainSteps THEN MaxChainSteps
                        ELSE MaxChainSteps - 1,
              !.buf = <<>>, !.bytes_read = 0, !.visited = <<>>, !.entries = <<>>]

\* read_chain's loop past MaxChainSteps iterations: the loop goes on as before
ReadChainBeyond ==
    /\ chain.pc = "loop" /\ chain.steps >= MaxChainSteps
    /\ \E a \in {chain_beyond(chain)} : ReadChainLoop(a)
    /\ UNCHANGED <<dir, disk, fault, partition, vfat, file, last, hist>>

NextChainLive == ReadChainCall \/ ReadChainWithin \/ ReadChainBeyond

\* the loop of read_chain runs in the caller's thread and never waits: an
\* iteration that can be taken is taken
SpecChainLive ==
    /\ InitChainLive /\ [][NextChainLive]_vars
    /\ WF_vars(ReadChainWithin) /\ WF_vars(ReadChainBeyond)

\* C27: every read_chain call returns, with Ok or with an error, whatever the
\* FAT holds and whichever cluster it starts at.
C27_ReadChainReturns == (chain.pc = "loop") ~> (chain.pc = "done")

----------------------------------------------------------------------------
(* One File: any sequence of read and seek calls, on a volume whose chain   *)
(* from the file's start cluster is sound, broken or cyclic                 *)

\* Metadata.size is at most MaxFileSize
MaxFileSize == 5
\* a File calls read_chain at most this many times
MaxChainCalls == 2

\* the declared sizes: empty, and around the bytes of one cluster
FileSizes == {0, MaxFileSize - 2, MaxFileSize - 1, MaxFileSize}

\* the FAT values that end the file's chain: end of chain, free, a link back
\* to cluster 2
FileChainEnds == {268435448, 0, 2}

\* a FAT whose chain from cluster 2 has n clusters before it ends with end
FileFat(n, end) ==
    [c \in 0..MaxCluster |->
        IF c = 0 THEN 268435448 ELSE IF c = 1 THEN 268435455
        ELSE IF c = 2 THEN (IF n = 1 THEN end ELSE 3)
        ELSE IF c = 3 /\ n = 2 THEN end
        ELSE 0]

FileVolumes == { Volume(f, 1) : f \in Factors }

InitFile ==
    /\ \E v \in FileVolumes, n \in 1..2, end \in FileChainEnds :
          /\ partition = v.partition
          /\ vfat = v.vfat
          /\ disk = VolumeImage(v, FileFat(n, end), 0)
          /\ hist = [mutOk |-> {}, inserted |-> {}, fat |-> FileFat(n, end),
                     chainLog |-> <<>>]
    /\ fault = NoFault
    /\ cache = <<>>
    /\ chain = IdleChain
    /\ dir = NoDir
    /\ \E size \in FileSizes : file = FileNew(size, 2)
    /\ last = NoCall

FileAlive == IF last.op = "none" THEN TRUE ELSE last.res \notin {"Panic", "Hang"}

\* the environment: while the file's bytes are not cached, the first sector
\* of the data region starts or stops failing
FileDeviceChange ==
    /\ FileAlive /\ ~file.data.some
    /\ fault' = IF fault = NoFault
                THEN [sector |-> FirstPhysical(vfat.data_start_sector), kind |-> "err"]
                ELSE NoFault
    /\ UNCHANGED <<dir, disk, partition, cache, vfat, chain, file, last, hist>>

ReadLens == {0, 2, MaxFileSize + 1}

FileRead ==
    /\ FileAlive
    /\ file.data.some \/ Len(hist.chainLog) < MaxChainCalls
    /\ \E len \in ReadLens :
          LET r == read(cache, file, len)
          IN  /\ cache' = r.cache
              /\ file' = r.file
              /\ last' = [op |-> "read", len |-> len, offset |-> file.offset,
                          cached |-> file.data.some, called |-> r.called,
                          res |-> r.res, n |-> r.n, bytes |-> r.bytes]
              /\ hist' = [hist EXCEPT !.chainLog =
                            IF r.called
                            THEN Append(@, [by |-> "read", ok |-> r.file.data.some])
                            ELSE @]
    /\ UNCHANGED <<dir, disk, fault, partition, vfat, chain>>

SeekArgs ==
    { [kind |-> "Start", off |-> k] : k \in 0..(MaxFileSize + 1) }
        \cup { [kind |-> k, off |-> d] : k \in {"End", "Current"}, d \in -1..1 }

FileSeek ==
    /\ FileAlive
    /\ \E pos \in SeekArgs :
          LET r == seek(file, pos)
          IN  /\ file' = r.file
              /\ last' = [op |-> "seek", pos |-> pos, offset |-> file.offset,
                          res |-> IF r.ok THEN "Ok" ELSE r.err, ret |-> r.pos]
    /\ UNCHANGED <<dir, disk, fault, partition, cache, vfat, chain, hist>>

NextFile == FileDeviceChange \/ FileRead \/ FileSeek

SpecFile == InitFile /\ [][NextFile]_vars

\* C3: a read of L bytes at offset o of a File of declared size N whose chain
\* the device serves succeeds, returns min(L, N - o) bytes, the bytes of the
\* file contents from o on, and leaves the offset at o + min(L, N - o), so
\* that a read at o = N returns 0 bytes; the offset is always within 0..N.
C3_ReadCopiesMin ==
    /\ file.offset >= 0 /\ file.offset <= file.size
    /\ (last.op = "read" /\ last.res \notin {"Io", "InvalidData", "Hang"}) =>
          LET m == Min(last.len, file.size - last.offset)
          IN  /\ last.res = "Ok"
              /\ last.n = m
              /\ file.offset = last.offset + m
              /\ last.bytes = Slice(file.data.bytes, last.offset, m)

\* the offset from the start of the file that a SeekFrom names (std::io::Seek:
\* Start(n) is n, End(n) is the size plus n, Current(n) is the offset plus n)
C4_Target(pos, size, offset) ==
    IF pos.kind = "Start" THEN pos.off
    ELSE IF pos.kind = "End" THEN size + pos.off
    ELSE offset + pos.off

\* C4: a seek to an offset beyond the size N or to a negative offset fails with
\* InvalidInput and leaves the offset as it was; a seek to N succeeds, and a
\* read at offset N whose chain the device serves returns 0 bytes.
C4_SeekBounds ==
    /\ last.op = "seek" =>
          LET t == C4_Target(last.pos, file.size, last.offset)
          IN  /\ (t < 0 \/ t > file.size) =>
                    last.res = "InvalidInput" /\ file.offset = last.offset
              /\ t = file.size => last.res = "Ok" /\ file.offset = file.size
    /\ (last.op = "read" /\ last.offset = file.size /\ last.res = "Ok") => last.n = 0

\* C5 as stated: read_chain is invoked at most once over the calls on a File,
\* by a read, and a read that follows another read does not invoke it.
C5_ChainReadAtMostOnce ==
    /\ Len(hist.chainLog) <= 1
    /\ \A i \in 1..Len(hist.chainLog) : hist.chainLog[i].by = "read"

\* C5: read_chain is invoked only by read, by exactly the reads made while no
\* read_chain of the File has succeeded: every invocation but the last has
\* failed, the File holds cached bytes exactly when the last invocation
\* succeeded, a read of a File without cached bytes invokes it, and a read of
\* a File with cached bytes does not invoke it and copies from those bytes.
C5_ChainReadUntilSuccess ==
    LET log == hist.chainLog
    IN  /\ \A i \in 1..Len(log) : log[i].by = "read" /\ (log[i].ok => i = Len(log))
        /\ file.data.some <=> (Len(log) > 0 /\ log[Len(log)].ok)
        /\ (last.op = "read" /\ ~last.cached) => last.called
        /\ (last.op = "read" /\ last.cached) =>
              /\ ~last.called
              /\ last.res = "Ok" =>
                    last.bytes = Slice(file.data.bytes, last.offset, last.n)

\* a read fails on a device error, the next read materializes the chain, and
\* a third read copies bytes without reading the chain again
C5_Witness ==
    /\ Len(hist.chainLog) = 2 /\ ~hist.chainLog[1].ok /\ hist.chainLog[2].ok
    /\ last.op = "read" /\ last.cached /\ ~last.called
    /\ last.res = "Ok" /\ last.n > 0

\* C30: a read that returns does so with a result value, bytes or an error,
\* also when the declared size exceeds the bytes of the cluster chain: it
\* never indexes past the end of the cached data.
C30_ReadWithinData ==
    (last.op = "read" /\ last.res # "Hang") =>
        last.res \in {"Ok", "Io", "InvalidData", "InvalidInput"}

----------------------------------------------------------------------------
(* Construction of the sector cache: CachedDevice::new on any partition     *)
(* descriptor, then get and get_mut on the device it built                  *)

\* CachedDevice::new: the assert, then the empty cache
new(p) ==
    IF ~(p.sector_size >= DevSectorSize)
    THEN [res |-> "Panic", partition |-> p, cache |-> <<>>]
    ELSE [res |-> "Ok", partition |-> p, cache |-> <<>>]

\* the partition descriptors handed to new: every logical sector size up to
\* one byte over twice the physical one
NewPartitions ==
    { [start |-> st, sector_size |-> sz] : st \in 0..1, sz \in 0..(2 * DevSectorSize + 1) }

NoPartition == [start |-> 0, sector_size |-> 0]

InitNew ==
    /\ partition = NoPartition
    /\ disk = PatternDisk(CacheDiskSize)
    /\ fault = NoFault
    /\ cache = <<>>
    /\ vfat = NoVFat
    /\ chain = IdleChain
    /\ dir = NoDir
    /\ file = NoFile
    /\ last = NoCall
    /\ hist = [mutOk |-> {}, inserted |-> {}, built |-> FALSE]

New ==
    /\ last = NoCall
    /\ \E p \in NewPartitions :
          LET r == new(p)
          IN  /\ last' = [op |-> "new", res |-> r.res, arg |-> p]
              /\ partition' = IF r.res = "Ok" THEN r.partition ELSE partition
              /\ cache' = r.cache
              /\ hist' = [hist EXCEPT !.built = (r.res = "Ok")]
    /\ UNCHANGED <<dir, disk, fault, vfat, chain, file>>

NewGet == hist.built /\ Get

NewGetMut == hist.built /\ GetMut

NextNew == New \/ NewGet \/ NewGetMut

SpecNew == InitNew /\ [][NextNew]_vars

\* C11: new fails on every partition whose sector size is below the physical
\* sector size or is not a multiple of it, and the partition of every
\* CachedDevice that exists has a sector size that is a positive multiple of
\* the physical sector size.
C11_NewRejectsBadPartition ==
    /\ hist.built =>
          /\ partition.sector_size >= DevSectorSize
          /\ partition.sector_size % DevSectorSize = 0
    /\ (last.op = "new" /\ (last.arg.sector_size < DevSectorSize
                              \/ last.arg.sector_size % DevSectorSize # 0))
          => last.res = "Panic"

----------------------------------------------------------------------------
(* The boot structures: MasterBootRecord::from, BiosParameterBlock::from    *)
(* and VFat::from on a device of 512-byte sectors                           *)

\* device.sector_size() of the device the boot structures are read from
BootSectorSize == 512

\* LittleEndian::read_u16 and read_u32 of the bytes of s from offset off on
read_u16(s, off) == s[off + 1] + 256 * s[off + 2]
read_u32(s, off) ==
    s[off + 1] + 256 * s[off + 2] + 65536 * s[off + 3] + 16777216 * s[off + 4]

\* BlockDevice::read_sector(n, buf) of that device: Err, or the whole sector
BootReadSector(n) ==
    IF n \notin DOMAIN disk \/ FaultAt(n) = "err"
    THEN [ok |-> FALSE, buf |-> Zeros(BootSectorSize)]
    ELSE [ok |-> TRUE, buf |-> WriteAt(Zeros(BootSectorSize), 0, disk[n])]

\* a signature check that looks at the first signature byte only
mbr_signature_first_byte(mbr_sector) == mbr_sector[BootSectorSize - 1] = 85

\* mbr.rs line 61: the last two bytes of the sector are 0x55 0xAA
mbr_signature(mbr_sector) == Slice(mbr_sector, BootSectorSize - 2, 2) = <<85, 170>>

\* the PartitionEntry decoded from a 16-byte chunk
partition_entry(b) ==
    [boot_indicator_flag |-> b[1],
     starting_chs |-> [head |-> b[2], sector_starting_cylinder |-> read_u16(b, 2)],
     partition_type |-> b[5],
     ending_chs |-> [head |-> b[6], sector_starting_cylinder |-> read_u16(b, 6)],
     relative_sector |-> read_u32(b, 8),
     total_sectors |-> read_u32(b, 12)]

\* [PartitionEntry; 4] of Default::default()
DefaultEntries ==
    [i \in 1..4 |->
        [boot_indicator_flag |-> 0,
         starting_chs |-> [head |-> 0, sector_starting_cylinder |-> 0],
         partition_type |-> 0,
         ending_chs |-> [head |-> 0, sector_starting_cylinder |-> 0],
         relative_sector |-> 0, total_sectors |-> 0]]

\* the loop over the 16-byte chunks of mbr_sector[446..sector_size - 2], from
\* chunk i on (i counts from 0)
RECURSIVE PartitionLoop(_, _, _)
PartitionLoop(mbr_sector, i, entries) ==
    LET from == 446 + 16 * i
        len == Min(16, BootSectorSize - 2 - from)
    IN  IF len <= 0 THEN [res |-> "Ok", index |-> -1, entries |-> entries]
        ELSE IF mbr_sector[from + 1] \notin {0, 128}
        THEN [res |-> "UnknownBootIndicator", index |-> i, entries |-> entries]
        ELSE IF len < 16 \/ i >= 4
        THEN [res |-> "Panic", index |-> -1, entries |-> entries]
        ELSE PartitionLoop(mbr_sector, i + 1,
                [entries EXCEPT ![i + 1] = partition_entry(Slice(mbr_sector, from, 16))])

\* MasterBootRecord::from once sector 0 has been read as rd
mbr_decode(rd) ==
    IF ~rd.ok THEN [res |-> "Io", index |-> -1]
    ELSE IF ~mbr_signature(rd.buf) THEN [res |-> "BadSignature", index |-> -1]
    ELSE LET l == PartitionLoop(rd.buf, 0, DefaultEntries)
         IN  IF l.res # "Ok" THEN [res |-> l.res, index |-> l.index]
             ELSE [res |-> "Ok", index |-> -1,
                   mbr_bootstrap |-> Slice(rd.buf, 0, 436),
                   disk_id |-> Slice(rd.buf, 436, 10),
                   partition_table_entries |-> l.entries,
                   bootsector_signature |-> Slice(rd.buf, BootSectorSize - 2, 2)]

\* MasterBootRecord::from
MasterBootRecord_from == mbr_decode(BootReadSector(0))

\* the for loop of get_fat_partition_offset over the entries from the i-th on
RECURSIVE get_fat_partition_offset_from(_, _)
get_fat_partition_offset_from(entries, i) ==
    IF i > Len(entries) THEN [some |-> FALSE, offset |-> 0]
    ELSE IF entries[i].partition_type = 11 \/ entries[i].partition_type = 12
    THEN [some |-> TRUE, offset |-> entries[i].relative_sector]
    ELSE get_fat_partition_offset_from(entries, i + 1)

\* a lookup that considers the first partition entry only
get_fat_partition_offset_first(mbr) ==
    get_fat_partition_offset_from(SubSeq(mbr.partition_table_entries, 1, 1), 1)

\* MasterBootRecord::get_fat_partition_offset
get_fat_partition_offset(mbr) ==
    get_fat_partition_offset_from(mbr.partition_table_entries, 1)

\* a signature check that looks at the last byte only
ebpb_signature_last_byte(sector_bytes) == sector_bytes[BootSectorSize] = 170

\* ebpb.rs line 53: the last two bytes of the sector are 0x55 0xAA
ebpb_signature(sector_bytes) ==
    Slice(sector_bytes, BootSectorSize - 2, 2) = <<85, 170>>

\* BiosParameterBlock::from once the sector has been read as rd
ebpb_decode(rd) ==
    IF ~rd.ok THEN [res |-> "Io"]
    ELSE IF ~ebpb_signature(rd.buf) THEN [res |-> "BadSignature"]
    ELSE LET b == rd.buf
         IN  [res |-> "Ok",
              assembly_block |-> Slice(b, 0, 3),
              oem_id |-> Slice(b, 3, 8),
              bytes_per_sector |-> read_u16(b, 11),
              sectors_per_cluster |-> b[14],
              reserved_sectors |-> read_u16(b, 14),
              num_fats |-> b[17],
              max_dir_entries |-> read_u16(b, 17),
              total_logical_sectors_small |-> read_u16(b, 19),
              fat_id |-> b[22],
              sectors_per_fat16 |-> 0,
              sectors_per_track |-> read_u16(b, 24),
              num_heads |-> read_u16(b, 26),
              num_hidden_sectors |-> read_u32(b, 28),
              total_logical_sectors_large |-> read_u32(b, 32),
              sectors_per_fat |-> read_u32(b, 36),
              flags |-> read_u16(b, 40),
              fat_version |-> Slice(b, 42, 2),
              root_cluster_num |-> read_u32(b, 44),
              fs_info_sector_num |-> read_u16(b, 48),
              backup_boot_sector_num |-> read_u16(b, 50),
              r |-> Zeros(12),
              drive_num |-> b[65],
              nt_flags |-> b[66],
              signature |-> b[67],
              volume_id |-> read_u32(b, 67),
              volume_label_string |-> Slice(b, 71, 11),
              system_id_string |-> Slice(b, 82, 8),
              boot_code |-> Slice(b, 90, 420),
              bootable_partition_signature |-> Slice(b, 510, 2)]

\* a BiosParameterBlock::from that reads sector 0 whichever sector is asked
BiosParameterBlock_from_zero(sector) == ebpb_decode(BootReadSector(0))

\* BiosParameterBlock::from(device, sector)
BiosParameterBlock_from(sector) == ebpb_decode(BootReadSector(sector))

\* VFat::from after the EBPB at bpb_offset has been decoded as bpb
vfat_from_bpb(bpb_offset, bpb) ==
    IF bpb.res # "Ok" THEN [res |-> bpb.res, reads |-> <<0, bpb_offset>>]
    ELSE LET fat_start_sector == bpb_offset + bpb.reserved_sectors
             data_start_sector == fat_start_sector + bpb.sectors_per_fat * bpb.num_fats
         IN  IF ~(bpb.bytes_per_sector >= BootSectorSize)
             THEN [res |-> "Panic", reads |-> <<0, bpb_offset>>]
             ELSE [res |-> "Ok", reads |-> <<0, bpb_offset>>,
                   partition |-> [start |-> bpb_offset,
                                  sector_size |-> bpb.bytes_per_sector],
                   vfat |-> [bytes_per_sector |-> bpb.bytes_per_sector % U16,
                             sectors_per_cluster |-> bpb.sectors_per_cluster,
                             sectors_per_fat |-> bpb.sectors_per_fat,
                             fat_start_sector |-> fat_start_sector,
                             data_start_sector |-> data_start_sector,
                             root_dir_cluster |-> bpb.root_cluster_num]]

\* VFat::from after the partition lookup has returned found
vfat_from_offset(found) ==
    IF ~found.some THEN [res |-> "NotFound", reads |-> <<0>>]
    ELSE vfat_from_bpb(found.offset, BiosParameterBlock_from(found.offset))

\* VFat::from after MasterBootRecord::from has returned mbr
vfat_from_mbr(mbr) ==
    IF mbr.res # "Ok" THEN [res |-> mbr.res, reads |-> <<0>>]
    ELSE vfat_from_offset(get_fat_partition_offset(mbr))

\* VFat::from
VFat_from == vfat_from_mbr(MasterBootRecord_from)

\* the bytes of the boot device that no structure gives a meaning
BootPatternByte(p, j) == ((p * 37 + j) % 100) + 1

\* partition entries: boot indicator, type byte, relative sector: two FAT32
\* ones, one of another type, one with an unknown boot indicator
EntryTemplates ==
    { [boot |-> 128, type |-> 11, rel |-> 1],
      [boot |-> 0, type |-> 12, rel |-> 2],
      [boot |-> 128, type |-> 131, rel |-> 1],
      [boot |-> 1, type |-> 11, rel |-> 2] }

\* trailing signatures: the valid one, one wrong in its second byte, the
\* valid bytes swapped
Signatures == { <<85, 170>>, <<85, 171>>, <<170, 85>> }

\* sector p holding an MBR with the partition entries es and signature sig
MbrSector(p, es, sig) ==
    [j1 \in 1..BootSectorSize |->
        LET j == j1 - 1
            e == es[((j - 446) \div 16) + 1]
            o == (j - 446) % 16
        IN  IF j >= 510 THEN sig[j - 509]
            ELSE IF j < 446 THEN BootPatternByte(p, j)
            ELSE IF o = 0 THEN e.boot
            ELSE IF o = 4 THEN e.type
            ELSE IF o = 8 THEN e.rel
            ELSE IF o = 12 THEN 8
            ELSE IF o > 8 THEN 0
            ELSE BootPatternByte(p, j)]

\* the volume label of an EBPB, as bytes
LabelA == <<67, 83, 49, 52, 48, 69, 32, 32, 32, 32, 32>>
LabelB == <<78, 79, 32, 78, 65, 77, 69, 32, 32, 32, 32>>

EbpbA == [bytes_per_sector |-> 512, sectors_per_cluster |-> 1, reserved_sectors |-> 2,
          num_fats |-> 2, sectors_per_fat |-> 3, root_cluster_num |-> 2,
          label |-> LabelA]
EbpbB == [bytes_per_sector |-> 1024, sectors_per_cluster |-> 2, reserved_sectors |-> 1,
          num_fats |-> 1, sectors_per_fat |-> 2, root_cluster_num |-> 3,
          label |-> LabelB]

\* sector p holding an EBPB with the fields g and signature sig
EbpbSector(p, g, sig) ==
    [j1 \in 1..BootSectorSize |->
        LET j == j1 - 1
        IN  IF j >= 510 THEN sig[j - 509]
            ELSE IF j = 11 THEN g.bytes_per_sector % 256
            ELSE IF j = 12 THEN g.bytes_per_sector \div 256
            ELSE IF j = 13 THEN g.sectors_per_cluster
            ELSE IF j = 14 THEN g.reserved_sectors
            ELSE IF j = 15 THEN 0
            ELSE IF j = 16 THEN g.num_fats
            ELSE IF j = 36 THEN g.sectors_per_fat
            ELSE IF j \in 37..39 THEN 0
            ELSE IF j = 44 THEN g.root_cluster_num
            ELSE IF j \in 45..47 THEN 0
            ELSE IF j \in 71..81 THEN g.label[j - 70]
            ELSE BootPatternByte(p, j)]

InitBoot ==
    /\ \E es \in [1..4 -> EntryTemplates], sig0 \in Signatures,
          sig2 \in {<<85, 170>>, <<0, 170>>} :
          disk = [p \in 0..2 |->
                    IF p = 0 THEN MbrSector(0, es, sig0)
                    ELSE IF p = 1 THEN EbpbSector(1, EbpbA, <<85, 170>>)
                    ELSE EbpbSector(2, EbpbB, sig2)]
    /\ fault = NoFault
    /\ partition = NoPartition
    /\ cache = <<>>
    /\ vfat = NoVFat
    /\ chain = IdleChain
    /\ dir = NoDir
    /\ file = NoFile
    /\ last = NoCall
    /\ hist = [mutOk |-> {}, inserted |-> {}]

\* the environment: before the first call a sector of the device starts failing
BootDeviceChange ==
    /\ last = NoCall /\ fault = NoFault
    /\ \E p \in 0..1 : fault' = [sector |-> p, kind |-> "err"]
    /\ UNCHANGED <<dir, disk, partition, cache, vfat, chain, file, last, hist>>

\* each behaviour makes one call on the device it was given
MbrFrom ==
    /\ last = NoCall
    /\ last' = [op |-> "MasterBootRecord::from", r |-> MasterBootRecord_from]
    /\ UNCHANGED <<dir, disk, fault, partition, cache, vfat, chain, file, hist>>

BpbFrom ==
    /\ last = NoCall
    /\ \E sector \in 0..3 :
          last' = [op |-> "BiosParameterBlock::from", sector |-> sector,
                   r |-> BiosParameterBlock_from(sector)]
    /\ UNCHANGED <<dir, disk, fault, partition, cache, vfat, chain, file, hist>>

VFatFrom ==
    /\ last = NoCall
    /\ LET r == VFat_from
           mbr == MasterBootRecord_from
       IN  /\ last' = [op |-> "VFat::from", r |-> r,
                       found |-> IF mbr.res = "Ok"
                                 THEN get_fat_partition_offset(mbr)
                                 ELSE [some |-> FALSE, offset |-> 0]]
           /\ partition' = IF r.res = "Ok" THEN r.partition ELSE partition
           /\ vfat' = IF r.res = "Ok" THEN r.vfat ELSE vfat
    /\ UNCHANGED <<dir, disk, fault, cache, chain, file, hist>>

NextBoot == BootDeviceChange \/ MbrFrom \/ BpbFrom \/ VFatFrom

SpecBoot == InitBoot /\ [][NextBoot]_vars

\* the least element of a non-empty set of numbers
C12_Least(S) == CHOOSE i \in S : \A j \in S : i <= j

\* the partition entries of sector 0 whose boot indicator is neither 0x00 nor 0x80
C12_BadIndicators == { i \in 0..3 : disk[0][447 + 16 * i] \notin {0, 128} }

\* C12: on a device that serves sector 0, MasterBootRecord::from fails with
\* BadSignature when the last two bytes of the sector are not 0x55 0xAA
\* whatever the partition entries hold; otherwise with UnknownBootIndicator(i)
\* for the lowest entry i whose boot indicator is neither 0x00 nor 0x80;
\* otherwise it succeeds with the four entries decoded from bytes 446..510.
C12_MbrFrom ==
    (last.op = "MasterBootRecord::from" /\ fault.sector # 0) =>
        LET b == disk[0]
            r == last.r
        IN  IF <<b[511], b[512]>> # <<85, 170>> THEN r.res = "BadSignature"
            ELSE IF C12_BadIndicators # {}
            THEN r.res = "UnknownBootIndicator" /\ r.index = C12_Least(C12_BadIndicators)
            ELSE /\ r.res = "Ok"
                 /\ Len(r.partition_table_entries) = 4
                 /\ \A i \in 0..3 :
                       LET e == r.partition_table_entries[i + 1]
                           o == 446 + 16 * i
                       IN  /\ e.boot_indicator_flag = b[o + 1]
                           /\ e.starting_chs.head = b[o + 2]
                           /\ e.starting_chs.sector_starting_cylinder
                                 = b[o + 3] + 256 * b[o + 4]
                           /\ e.partition_type = b[o + 5]
                           /\ e.ending_chs.head = b[o + 6]
                           /\ e.ending_chs.sector_starting_cylinder
                                 = b[o + 7] + 256 * b[o + 8]
                           /\ e.relative_sector
                                 = b[o + 9] + 256 * b[o + 10] + 65536 * b[o + 11]
                                     + 16777216 * b[o + 12]
                           /\ e.total_sectors
                                 = b[o + 13] + 256 * b[o + 14] + 65536 * b[o + 15]
                                     + 16777216 * b[o + 16]

\* a valid signature, the entries 1 and 3 with unknown boot indicators: the
\* error names entry 1
C12_Witness ==
    /\ last.op = "MasterBootRecord::from" /\ fault.sector # 0
    /\ last.r.res = "UnknownBootIndicator" /\ last.r.index = 1
    /\ C12_BadIndicators = {1, 3}

\* the partition entries of sector 0 whose type byte is 0x0B or 0x0C
C13_FatEntries == { i \in 0..3 : disk[0][451 + 16 * i] \in {11, 12} }

\* sector 0 is served and decodes as an MBR
C13_MbrValid ==
    /\ fault.sector # 0
    /\ <<disk[0][511], disk[0][512]>> = <<85, 170>>
    /\ C12_BadIndicators = {}

\* C13: for an MBR that decodes, get_fat_partition_offset returns the
\* relative sector of the lowest partition entry whose type byte is 0x0B or
\* 0x0C, and none when there is no such entry; in that case VFat::from fails
\* with NotFound and has read sector 0 alone.
C13_FatPartitionOffset ==
    (last.op = "VFat::from" /\ C13_MbrValid) =>
        IF C13_FatEntries = {}
        THEN /\ ~last.found.some
             /\ last.r.res = "NotFound"
             /\ last.r.reads = <<0>>
        ELSE LET o == 446 + 16 * C12_Least(C13_FatEntries)
                 b == disk[0]
             IN  /\ last.found.some
                 /\ last.found.offset
                       = b[o + 9] + 256 * b[o + 10] + 65536 * b[o + 11]
                           + 16777216 * b[o + 12]
                 /\ last.r.reads = <<0, last.found.offset>>

\* entry 0 is of another type, entry 1 of type 0x0C at sector 2, entry 2 of
\* type 0x0B at sector 1: the lookup returns sector 2
C13_Witness ==
    /\ last.op = "VFat::from" /\ C13_MbrValid
    /\ C13_FatEntries = {1, 2}
    /\ disk[0][451 + 16] = 12 /\ disk[0][451 + 32] = 11
    /\ last.found.some /\ last.found.offset = 2

\* C14: BiosParameterBlock::from of a sector that the device serves and
\* whose last two bytes are not 0x55 0xAA fails with BadSignature.
C14_BadSignature ==
    (/\ last.op = "BiosParameterBlock::from"
     /\ last.sector \in DOMAIN disk /\ fault.sector # last.sector
     /\ <<disk[last.sector][511], disk[last.sector][512]>> # <<85, 170>>)
        => last.r.res = "BadSignature"

\* a sector whose signature is wrong in its second byte only
C14_Witness ==
    /\ last.op = "BiosParameterBlock::from" /\ last.sector = 0
    /\ fault.sector # 0
    /\ disk[0][511] = 85 /\ disk[0][512] # 170
    /\ last.r.res = "BadSignature"

\* C15: BiosParameterBlock::from(device, s) on a served sector s with a valid
\* signature succeeds, and its num_fats, bytes_per_sector and volume label
\* are byte 16, the little-endian bytes 11..13 and the bytes 71..82 of
\* sector s of the device.
C15_DecodesRequestedSector ==
    (/\ last.op = "BiosParameterBlock::from"
     /\ last.sector \in DOMAIN disk /\ fault.sector # last.sector
     /\ <<disk[last.sector][511], disk[last.sector][512]>> = <<85, 170>>) =>
        LET b == disk[last.sector]
        IN  /\ last.r.res = "Ok"
            /\ last.r.num_fats = b[17]
            /\ last.r.bytes_per_sector = b[12] + 256 * b[13]
            /\ last.r.volume_label_string = [i \in 1..11 |-> b[71 + i]]

\* sectors 0 and 1 both carry a valid signature and differ in the three
\* fields; sector 1 is decoded
C15_Witness ==
    /\ last.op = "BiosParameterBlock::from" /\ last.sector = 1
    /\ last.r.res = "Ok" /\ fault = NoFault
    /\ <<disk[0][511], disk[0][512]>> = <<85, 170>>
    /\ disk[0][17] # disk[1][17] /\ disk[0][13] # disk[1][13]
    /\ disk[0][72] # disk[1][72]
    /\ last.r.volume_label_string = LabelA /\ last.r.bytes_per_sector = 512

----------------------------------------------------------------------------
(* Directory decoding (vfat/dir.rs).  A record is its 32 bytes; a name is   *)
(* the sequence of its code points                                          *)

BYTES_IN_ENTRY == 32

RECURSIVE Reverse(_)
\* Vec::reverse
Reverse(s) == IF s = <<>> THEN <<>> ELSE Reverse(Tail(s)) \o <<Head(s)>>

\* the index from 0 of the first element of s that is in stop, Len(s) if none
RECURSIVE Position(_, _)
Position(s, stop) ==
    IF s = <<>> \/ Head(s) \in stop THEN 0 ELSE 1 + Position(Tail(s), stop)

\* std::char::decode_utf16(..).map(|r| r.unwrap_or('_')): a surrogate pair
\* gives its code point, a surrogate without its partner gives '_'
RECURSIVE decode_utf16(_)
decode_utf16(u) ==
    IF u = <<>> THEN <<>>
    ELSE IF Head(u) < 55296 \/ Head(u) > 57343
    THEN <<Head(u)>> \o decode_utf16(Tail(u))
    ELSE IF Head(u) <= 56319 /\ Len(u) >= 2 /\ u[2] >= 56320 /\ u[2] <= 57343
    THEN <<65536 + (Head(u) - 55296) * 1024 + (u[2] - 56320)>>
            \o decode_utf16(Tail(Tail(u)))
    ELSE <<95>> \o decode_utf16(Tail(u))

\* String::from_utf8_lossy of ASCII bytes; a byte that starts no valid
\* sequence gives U+FFFD
from_utf8_lossy(bytes) == [i \in 1..Len(bytes) |-> IF bytes[i] < 128 THEN bytes[i] ELSE 65533]

\* code units read with the first byte of each pair as the high one
lfn_chars_big_endian(name_bytes) ==
    [k \in 1..(Len(name_bytes) \div 2) |-> name_bytes[2 * k - 1] * 256 + name_bytes[2 * k]]

\* the u16 code units of name_bytes, dir.rs lines 175-181
lfn_chars(name_bytes) ==
    [k \in 1..(Len(name_bytes) \div 2) |-> name_bytes[2 * k] * 256 + name_bytes[2 * k - 1]]

\* dir.rs lines 183-186: the end of the name within chars
lfn_end(chars) == Position(chars, {0, 255})

\* the name of an entry that has LFN records, dir.rs lines 191-195
lfn_name(chars) == decode_utf16(SubSeq(chars, 1, lfn_end(chars)))

\* the name of an entry without LFN records, dir.rs lines 197-214
short_name(reg) ==
    LET filename == Slice(reg, 0, 8)
        extension == Slice(reg, 8, 3)
        end == Position(filename, {0, 32})
        pos == Position(extension, {0, 32})
        base == from_utf8_lossy(SubSeq(filename, 1, end))
    IN  IF pos = Len(extension) THEN base \o <<46>> \o from_utf8_lossy(extension)
        ELSE IF pos > 0 THEN base \o <<46>> \o from_utf8_lossy(SubSeq(extension, 1, pos))
        ELSE base

\* Vec::pop: the element taken and the vector left
Pop(v) == [val |-> v[Len(v)], rest |-> SubSeq(v, 1, Len(v) - 1)]

\* the Entry built from the regular record reg, dir.rs lines 171-243
dir_entry(reg, rest, name_bytes, is_lfn) ==
    LET chars == IF is_lfn THEN lfn_chars(name_bytes) ELSE <<>>
        name == IF is_lfn THEN lfn_name(chars) ELSE short_name(reg)
    IN  [res |-> "Some", dir_entries |-> rest, is_lfn |-> is_lfn, chars |-> chars,
         entry |-> [kind |-> IF (reg[12] \div 16) % 2 # 0 THEN "Dir" ELSE "File",
                    start_cluster |-> read_u16(reg, 20) * 65536 + read_u16(reg, 26),
                    metadata |-> [name |-> name,
                                  size |-> read_u32(reg, 28),
                                  attributes |-> reg[12],
                                  created |-> [time |-> read_u16(reg, 14),
                                               date |-> read_u16(reg, 16)],
                                  accessed |-> read_u16(reg, 18),
                                  last_modified |-> [time |-> read_u16(reg, 22),
                                                     date |-> read_u16(reg, 24)]]]]

\* what next returns without an Entry
dir_none(rest) ==
    [res |-> "None", dir_entries |-> rest, is_lfn |-> FALSE, chars |-> <<>>]
dir_panic(rest) ==
    [res |-> "Panic", dir_entries |-> rest, is_lfn |-> FALSE, chars |-> <<>>]

\* the while loop of dir.rs lines 148-167, entered with the record next
RECURSIVE lfn_loop(_, _, _, _)
lfn_loop(next, rest, name_bytes, is_lfn) ==
    IF next[12] # 15 THEN dir_entry(next, rest, Reverse(name_bytes), is_lfn)
    ELSE IF rest = <<>> THEN dir_panic(rest)
    ELSE IF next[1] # 229
    THEN lfn_loop(Pop(rest).val, Pop(rest).rest,
                  name_bytes \o Reverse(Slice(next, 1, 10) \o Slice(next, 14, 12)
                                          \o Slice(next, 28, 4)),
                  TRUE)
    ELSE lfn_loop(Pop(rest).val, Pop(rest).rest, name_bytes, is_lfn)

\* the while loop of dir.rs lines 124-134, entered with the record next
RECURSIVE skip_loop(_, _)
skip_loop(next, rest) ==
    IF next[1] = 229
    THEN IF rest = <<>> THEN dir_none(rest) ELSE skip_loop(Pop(rest).val, Pop(rest).rest)
    ELSE IF next[1] = 0 THEN dir_none(rest)
    ELSE lfn_loop(next, rest, <<>>, FALSE)

\* <DirIter as Iterator>::next on the records dir_entries
dir_next(dir_entries) ==
    IF dir_entries = <<>> THEN dir_none(dir_entries)
    ELSE skip_loop(Pop(dir_entries).val, Pop(dir_entries).rest)

\* buf.chunks(BYTES_IN_ENTRY), for a buffer of whole records
chunks(buf) ==
    [i \in 1..(Len(buf) \div BYTES_IN_ENTRY) |->
        Slice(buf, (i - 1) * BYTES_IN_ENTRY, BYTES_IN_ENTRY)]

\* DirIter::new once read_chain has returned rc
DirIter_new(rc) ==
    IF rc.result # "Ok" THEN [res |-> rc.result, dir_entries |-> <<>>]
    ELSE IF Len(rc.buf) % BYTES_IN_ENTRY # 0 THEN [res |-> "Panic", dir_entries |-> <<>>]
    ELSE [res |-> "Ok", dir_entries |-> Reverse(chunks(rc.buf))]

----------------------------------------------------------------------------
(* One directory listing: entries() on a directory of up to MaxDirRecords   *)
(* records, then any number of next() calls on its iterator                 *)

MaxDirRecords == 3

\* a regular record: 8-byte name, 3-byte extension, attribute byte, cluster
\* and size; the other fields are zero
RegularRecord(filename, extension, attributes, cluster, size) ==
    [j1 \in 1..BYTES_IN_ENTRY |->
        LET j == j1 - 1
        IN  IF j < 8 THEN filename[j + 1]
            ELSE IF j < 11 THEN extension[j - 7]
            ELSE IF j = 11 THEN attributes
            ELSE IF j = 26 THEN cluster
            ELSE IF j = 28 THEN size
            ELSE 0]

\* an LFN record with sequence byte seq_no holding the 13 code units units
LfnRecord(seq_no, units) ==
    [j1 \in 1..BYTES_IN_ENTRY |->
        LET j == j1 - 1
            \* the byte offset within the 26 bytes of the three groups
            g == IF j >= 1 /\ j < 11 THEN j - 1
                 ELSE IF j >= 14 /\ j < 26 THEN j - 4
                 ELSE IF j >= 28 THEN j - 6
                 ELSE -1
        IN  IF j = 0 THEN seq_no
            ELSE IF j = 11 THEN 15
            ELSE IF g < 0 THEN 0
            ELSE IF g % 2 = 0 THEN units[(g \div 2) + 1] % 256
            ELSE units[(g \div 2) + 1] \div 256]

\* "README  " "TXT", a file; "SUB     " "   ", a directory
RecReadme == RegularRecord(<<82, 69, 65, 68, 77, 69, 32, 32>>, <<84, 88, 84>>, 32, 2, 3)
RecSub == RegularRecord(<<83, 85, 66, 32, 32, 32, 32, 32>>, <<32, 32, 32>>, 16, 3, 0)
\* README.TXT deleted
RecDeleted == [RecReadme EXCEPT ![1] = 229]
\* the end marker
RecEnd == Zeros(BYTES_IN_ENTRY)
\* "LONGFILENAME.TXT": the record of sequence number 1 holds "LONGFILENAME.",
\* the last one (2, flagged 0x40) "TXT", the terminator and the padding
RecLfn1 == LfnRecord(1, <<76, 79, 78, 71, 70, 73, 76, 69, 78, 65, 77, 69, 46>>)
RecLfn2 == LfnRecord(66, <<84, 88, 84, 0>> \o [i \in 1..9 |-> 65535])
\* a deleted LFN record
RecLfnDeleted == [RecLfn1 EXCEPT ![1] = 229]
\* "A", the code unit 0x00FF, "B", terminated and padded
RecLfnFF == LfnRecord(65, <<65, 255, 66, 0>> \o [i \in 1..9 |-> 65535])
\* "C" followed by 0xFFFF units with no 0x0000 before them
RecLfnPad == LfnRecord(65, <<67>> \o [i \in 1..12 |-> 65535])

\* "MY FILE " "TXT": a name with a space inside it
RecMyFile == RegularRecord(<<77, 89, 32, 70, 73, 76, 69, 32>>, <<84, 88, 84>>, 32, 2, 3)

Records ==
    { RecReadme, RecSub, RecDeleted, RecEnd, RecLfn1, RecLfn2, RecLfnDeleted,
      RecLfnFF, RecLfnPad, RecMyFile }

RECURSIVE Concat(_, _)
\* the bytes of the records d[i], d[i + 1], ... of the device
Concat(d, i) == IF i \notin DOMAIN d THEN <<>> ELSE d[i] \o Concat(d, i + 1)

\* read_chain on the directory's start cluster: the records of the device,
\* or the error of a device that fails
dir_read_chain ==
    IF fault # NoFault THEN [result |-> "Io", buf |-> <<>>]
    ELSE [result |-> "Ok", buf |-> Concat(disk, 0)]

InitDir ==
    /\ \E n \in 0..MaxDirRecords : disk \in [0..(n - 1) -> Records]
    /\ fault = NoFault
    /\ partition = NoPartition
    /\ cache = <<>>
    /\ vfat = NoVFat
    /\ chain = IdleChain
    /\ dir = NoDir
    /\ file = NoFile
    /\ last = NoCall
    /\ hist = [mutOk |-> {}, inserted |-> {}, yielded |-> <<>>]

\* the environment: before the listing the device starts failing
DirDeviceChange ==
    /\ last = NoCall /\ fault = NoFault
    /\ fault' = [sector |-> 0, kind |-> "err"]
    /\ UNCHANGED <<disk, partition, cache, vfat, chain, file, dir, last, hist>>

\* <Dir as traits::Dir>::entries
Entries ==
    /\ last = NoCall
    /\ LET r == DirIter_new(dir_read_chain)
       IN  /\ last' = [op |-> "entries", res |-> r.res]
           /\ dir' = IF r.res = "Ok"
                     THEN [some |-> TRUE, dir_entries |-> r.dir_entries]
                     ELSE dir
    /\ UNCHANGED <<disk, fault, partition, cache, vfat, chain, file, hist>>

\* DirIter::next; from is the place, counted from 1, of the last record popped
DirNext ==
    /\ dir.some /\ last.res # "Panic"
    /\ LET r == dir_next(dir.dir_entries)
           from == Cardinality(DOMAIN disk) - Len(r.dir_entries)
       IN  /\ dir' = [dir EXCEPT !.dir_entries = r.dir_entries]
           /\ last' = [op |-> "next", res |-> r.res, from |-> from,
                       is_lfn |-> r.is_lfn, chars |-> r.chars,
                       entry |-> IF r.res = "Some" THEN r.entry ELSE <<>>]
           /\ hist' = [hist EXCEPT !.yielded =
                         IF r.res = "Some"
                         THEN Append(@, [from |-> from, entry |-> r.entry,
                                         after_none |-> last.res = "None"])
                         ELSE @]
    /\ UNCHANGED <<disk, fault, partition, cache, vfat, chain, file>>

NextDir == DirDeviceChange \/ Entries \/ DirNext

SpecDir == InitDir /\ [][NextDir]_vars

\* the record at place k of the directory, places counted from 1
DirRecord(k) == disk[k - 1]

\* C16: no Entry comes from a record placed after the first record whose
\* byte 0 is 0x00, however many times next is called.
C16_NothingAfterEndMarker ==
    \A i \in 1..Len(hist.yielded) :
        \A k \in 1..(hist.yielded[i].from - 1) : DirRecord(k)[1] # 0

\* C17: no Entry comes from a record whose byte 0 is 0xE5.
C17_NoDeletedEntry ==
    \A i \in 1..Len(hist.yielded) : DirRecord(hist.yielded[i].from)[1] # 229

\* the places of the non-deleted regular records before the end marker, in
\* on-disk order, from place k on
RECURSIVE C18_Listed(_)
C18_Listed(k) ==
    IF k > Cardinality(DOMAIN disk) \/ DirRecord(k)[1] = 0 THEN <<>>
    ELSE IF DirRecord(k)[12] = 15 \/ DirRecord(k)[1] = 229 THEN C18_Listed(k + 1)
    ELSE <<k>> \o C18_Listed(k + 1)

\* C18: the entries yielded so far come, in order and one each, from the
\* first non-deleted regular records before the end marker, and from all of
\* them once next has returned None.
C18_OneEntryPerRecord ==
    LET froms == [i \in 1..Len(hist.yielded) |-> hist.yielded[i].from]
        listed == C18_Listed(1)
    IN  /\ Len(froms) <= Len(listed)
        /\ froms = SubSeq(listed, 1, Len(froms))
        /\ (last.op = "next" /\ last.res = "None") => froms = listed

\* the 13 code units of the LFN record rec, little-endian
C19_Units(rec) ==
    LET b == Slice(rec, 1, 10) \o Slice(rec, 14, 12) \o Slice(rec, 28, 4)
    IN  [k \in 1..13 |-> b[2 * k - 1] + 256 * b[2 * k]]

\* the number of records with attribute byte 0x0F directly before place k
RECURSIVE C19_RunBefore(_)
C19_RunBefore(k) ==
    IF k <= 1 \/ DirRecord(k - 1)[12] # 15 THEN 0 ELSE 1 + C19_RunBefore(k - 1)

\* the m records before place k are LFN records numbered m, ..., 1 in
\* storage order, the first of them flagged as the last of the name
C19_Descending(k, m) ==
    \A p \in 1..m :
        DirRecord(k - m + p - 1)[1] = (m - p + 1) + (IF p = 1 THEN 64 ELSE 0)

\* the groups of the m records before place k, nearest record first
RECURSIVE C19_Ascending(_, _)
C19_Ascending(k, m) ==
    IF m = 0 THEN <<>> ELSE C19_Units(DirRecord(k - 1)) \o C19_Ascending(k - 1, m - 1)

\* C19: an Entry from a regular record preceded by LFN records stored in
\* descending sequence order has, as the code units of its name, the 13-unit
\* groups of those records in ascending sequence order, each group in its own
\* order and little-endian; when a 0x0000 unit ends them (or nothing does)
\* and no 0x00FF or 0xFFFF unit comes earlier, the name is the units before it.
C19_LfnAscending ==
    (last.op = "next" /\ last.res = "Some" /\ C19_RunBefore(last.from) > 0
     /\ C19_Descending(last.from, C19_RunBefore(last.from))) =>
        LET u == C19_Ascending(last.from, C19_RunBefore(last.from))
            z == Position(u, {0})
        IN  /\ last.is_lfn
            /\ last.chars = u
            /\ (\A i \in 1..z : u[i] \notin {255, 65535} /\ (u[i] < 55296 \/ u[i] > 57343))
                  => last.entry.metadata.name = SubSeq(u, 1, z)

\* "LONGFILENAME.TXT" stored as two LFN records split after 13 characters
C19_Witness ==
    /\ last.op = "next" /\ last.res = "Some" /\ last.from = 3
    /\ C19_RunBefore(3) = 2 /\ C19_Descending(3, 2)
    /\ last.entry.metadata.name
          = <<76, 79, 78, 71, 70, 73, 76, 69, 78, 65, 77, 69, 46, 84, 88, 84>>

\* C20: the name of an Entry with LFN records is its code units up to the
\* first unit equal to 0x0000 or 0xFFFF, and is cut at no other unit.
C20_TruncatesAtTerminator ==
    (last.op = "next" /\ last.res = "Some" /\ last.is_lfn
     /\ \A i \in 1..Len(last.chars) : last.chars[i] < 55296 \/ last.chars[i] > 57343) =>
        last.entry.metadata.name
            = SubSeq(last.chars, 1, Position(last.chars, {0, 65535}))

\* s without the 0x20 and 0x00 bytes at its end
RECURSIVE C21_Trim(_)
C21_Trim(s) ==
    IF s # <<>> /\ s[Len(s)] \in {0, 32} THEN C21_Trim(SubSeq(s, 1, Len(s) - 1)) ELSE s

\* the 8.3 name of the regular record reg as stated
C21_Name(reg) ==
    LET base == C21_Trim(Slice(reg, 0, 8))
        ext == C21_Trim(Slice(reg, 8, 3))
    IN  IF ext # <<>> THEN base \o <<46>> \o ext ELSE base

\* C21: the name of an Entry from a regular record with no LFN records
\* before it is the 8-byte name field without its trailing 0x20/0x00 bytes
\* (spaces inside it kept), then '.' and the extension without its trailing
\* 0x20/0x00 bytes exactly when that extension is not empty.
C21_ShortName ==
    (last.op = "next" /\ last.res = "Some" /\ ~last.is_lfn) =>
        last.entry.metadata.name = C21_Name(DirRecord(last.from))

\* C29: every call of next completes by returning an Entry or None, also
\* when the records left end with LFN records that no regular record follows.
C29_NextNeverAborts ==
    last.op = "next" => last.res \in {"Some", "None"}

----------------------------------------------------------------------------
(* read_cluster at the geometries of real volumes (vfat/vfat.rs).  The       *)
(* buffer is kept sector by sector: slot k stands for the bytes              *)
(* k * bytes_per_sector .. (k + 1) * bytes_per_sector - 1 and holds the       *)
(* number of the sector copied there, or -1 for bytes never written           *)

\* i as u16 * self.bytes_per_sector: a u16 product, which panics when it
\* overflows in a build with overflow checks and wraps in one without
start_byte(i, bytes_per_sector, overflow_checks) ==
    IF i * bytes_per_sector < U16 THEN i * bytes_per_sector
    ELSE IF overflow_checks THEN -1
    ELSE (i * bytes_per_sector) % U16

\* whether iteration i of read_cluster's loop panics: on the product, or on
\* the slice buf[start_byte..start_byte + bytes_per_sector] of a buf of
\* sectors_per_cluster * bytes_per_sector bytes
read_cluster_panics(v, i, overflow_checks) ==
    LET at == start_byte(i, v.bytes_per_sector, overflow_checks)
    IN  at < 0 \/ at + v.bytes_per_sector > v.sectors_per_cluster * v.bytes_per_sector

\* read_cluster(cluster, buf) with buf of one cluster's length, on a device
\* that serves every read: the loop runs up to its first iteration that
\* panics, and a slot holds what the last iteration that wrote it stored
read_cluster_sectors(v, cluster, overflow_checks) ==
    LET first == v.data_start_sector
                    + (IF cluster >= 2 THEN cluster - 2 ELSE 0) * v.sectors_per_cluster
        bad == { i \in 0..(v.sectors_per_cluster - 1) :
                    read_cluster_panics(v, i, overflow_checks) }
        done == IF bad = {} THEN v.sectors_per_cluster
                ELSE CHOOSE i \in bad : \A j \in bad : i <= j
        slot(i) == (start_byte(i, v.bytes_per_sector, overflow_checks)
                        \div v.bytes_per_sector) + 1
    IN  [res |-> IF bad = {} THEN "Ok" ELSE "Panic",
         reads |-> [k \in 1..done |-> first + (k - 1)],
         slots |-> [k \in 1..v.sectors_per_cluster |->
                      LET writers == { i \in 0..(done - 1) : slot(i) = k }
                      IN  IF writers = {} THEN -1
                          ELSE first + (CHOOSE i \in writers : \A j \in writers : i >= j)],
         n |-> done * v.bytes_per_sector]

\* bytes_per_sector and sectors_per_cluster as an EBPB holds them
BytesPerSector == {512, 1024, 4096}
ClusterSectors == {1, 2, 16, 17, 64, 128}

InitCluster ==
    /\ \E bps \in BytesPerSector, spc \in ClusterSectors, ds \in {3, 40} :
          vfat = [bytes_per_sector |-> bps, sectors_per_cluster |-> spc,
                  data_start_sector |-> ds]
    /\ \E oc \in BOOLEAN :
          hist = [mutOk |-> {}, inserted |-> {}, overflow_checks |-> oc]
    /\ disk = <<>>
    /\ fault = NoFault
    /\ partition = NoPartition
    /\ cache = <<>>
    /\ chain = IdleChain
    /\ dir = NoDir
    /\ file = NoFile
    /\ last = NoCall

ReadCluster ==
    /\ last = NoCall
    /\ \E cluster \in 2..4 :
          LET r == read_cluster_sectors(vfat, cluster, hist.overflow_checks)
          IN  last' = [op |-> "read_cluster", cluster |-> cluster, res |-> r.res,
                       reads |-> r.reads, slots |-> r.slots, n |-> r.n]
    /\ UNCHANGED <<dir, disk, fault, partition, cache, vfat, chain, file, hist>>

NextCluster == ReadCluster

SpecCluster == InitCluster /\ [][NextCluster]_vars

\* C26: read_cluster(c, buf) for c >= 2 returns Ok having read exactly the
\* sectors data_start + (c - 2) * sectors_per_cluster + i, i from 0 below
\* sectors_per_cluster, once each and in this order, and buf holds sector i
\* at byte offset i * bytes_per_sector, also when a cluster has 65536 bytes
\* or more.
C26_ReadClusterLayout ==
    last.op = "read_cluster" =>
        LET spc == vfat.sectors_per_cluster
            sector(i) == vfat.data_start_sector + (last.cluster - 2) * spc + i
        IN  /\ last.res = "Ok"
            /\ last.reads = [k \in 1..spc |-> sector(k - 1)]
            /\ last.slots = [k \in 1..spc |-> sector(k - 1)]

----------------------------------------------------------------------------
(* The write-type requests (vfat/vfat.rs, vfat/file.rs), made on a volume    *)
(* and a File after any number of reads                                      *)

\* unimplemented!(): the call panics
unimplemented == "Panic"

\* FileSystem::create_file, create_dir, rename, remove
create_file == unimplemented
create_dir == unimplemented
rename == unimplemented
remove == unimplemented
\* <File as traits::File>::sync, <File as io::Write>::write and flush
sync == unimplemented
write == unimplemented
flush == unimplemented

\* a write-type request op that completes as res
WriteRequest(op, res) ==
    /\ FileAlive
    /\ last' = [op |-> op, res |-> res, offset |-> file.offset]
    /\ UNCHANGED <<dir, disk, fault, partition, cache, vfat, chain, file, hist>>

CreateFile == WriteRequest("create_file", create_file)
CreateDir == WriteRequest("create_dir", create_dir)
Rename == WriteRequest("rename", rename)
Remove == WriteRequest("remove", remove)
FileSync == WriteRequest("sync", sync)
FileWrite == WriteRequest("write", write)
FileFlush == WriteRequest("flush", flush)

NextWrite ==
    \/ FileRead \/ CreateFile \/ CreateDir \/ Rename \/ Remove
    \/ FileSync \/ FileWrite \/ FileFlush

SpecWrite == InitFile /\ [][NextWrite]_vars

\* C25: every write-type request returns a "not supported" error value to
\* its caller, with the file offset as it was; none aborts the caller.
C25_WriteUnsupported ==
    last.op \in {"create_file", "create_dir", "rename", "remove",
                 "sync", "write", "flush"} =>
        last.res = "Unsupported" /\ file.offset = last.offset

----------------------------------------------------------------------------
(* Lookup by name and by path (vfat/dir.rs, vfat/vfat.rs).  A lookup name    *)
(* and a path are their bytes, as an OsStr on a Unix target                  *)

\* whether b is a UTF-8 continuation byte
utf8_cont(b) == b >= 128 /\ b <= 191

\* the number of bytes of the UTF-8 sequence that starts b, 0 if there is none
utf8_width(b) ==
    LET n == Len(b)
    IN  IF b[1] < 128 THEN 1
        ELSE IF b[1] >= 194 /\ b[1] <= 223 /\ n >= 2 /\ utf8_cont(b[2]) THEN 2
        ELSE IF b[1] >= 224 /\ b[1] <= 239 /\ n >= 3 /\ utf8_cont(b[2]) /\ utf8_cont(b[3])
                /\ (b[1] = 224 => b[2] >= 160) /\ (b[1] = 237 => b[2] <= 159) THEN 3
        ELSE IF b[1] >= 240 /\ b[1] <= 244 /\ n >= 4 /\ utf8_cont(b[2]) /\ utf8_cont(b[3])
                /\ utf8_cont(b[4]) /\ (b[1] = 240 => b[2] >= 144)
                /\ (b[1] = 244 => b[2] <= 143) THEN 4
        ELSE 0

\* the code point of the UTF-8 sequence of w bytes that starts b
utf8_code_point(b, w) ==
    IF w = 1 THEN b[1]
    ELSE IF w = 2 THEN (b[1] - 192) * 64 + (b[2] - 128)
    ELSE IF w = 3 THEN (b[1] - 224) * 4096 + (b[2] - 128) * 64 + (b[3] - 128)
    ELSE (b[1] - 240) * 262144 + (b[2] - 128) * 4096 + (b[3] - 128) * 64 + (b[4] - 128)

\* OsStr::to_str: Some of the code points when the bytes are valid UTF-8
RECURSIVE to_str(_)
to_str(b) ==
    IF b = <<>> THEN [some |-> TRUE, chars |-> <<>>]
    ELSE IF utf8_width(b) = 0 THEN [some |-> FALSE, chars |-> <<>>]
    ELSE LET w == utf8_width(b)
             rest == to_str(SubSeq(b, w + 1, Len(b)))
         IN  IF ~rest.some THEN rest
             ELSE [some |-> TRUE, chars |-> <<utf8_code_point(b, w)>> \o rest.chars]

\* u8::to_ascii_lowercase, on a code point
to_ascii_lowercase(c) == IF c >= 65 /\ c <= 90 THEN c + 32 ELSE c

\* str::eq_ignore_ascii_case
eq_ignore_ascii_case(a, b) ==
    /\ Len(a) = Len(b)
    /\ \A i \in 1..Len(a) : to_ascii_lowercase(a[i]) = to_ascii_lowercase(b[i])

\* the bytes read_chain returns for a directory that starts at start_cluster:
\* its records, or the error of a device that fails
dir_read_chain_at(start_cluster) ==
    IF fault # NoFault THEN [result |-> "Io", buf |-> <<>>]
    ELSE IF start_cluster \notin DOMAIN disk THEN [result |-> "InvalidData", buf |-> <<>>]
    ELSE [result |-> "Ok", buf |-> Concat(disk[start_cluster], 1)]

\* the for loop of find over the records dir_entries not yet popped
RECURSIVE find_loop(_, _)
find_loop(name, dir_entries) ==
    LET r == dir_next(dir_entries)
    IN  IF r.res = "Panic" THEN [res |-> "Panic"]
        ELSE IF r.res = "None" THEN [res |-> "NotFound"]
        ELSE IF ~to_str(name).some THEN [res |-> "InvalidInput"]
        ELSE IF eq_ignore_ascii_case(r.entry.metadata.name, to_str(name).chars)
        THEN [res |-> "Ok", entry |-> r.entry]
        ELSE find_loop(name, r.dir_entries)

\* find once entries() has returned it
find_entries(name, it) ==
    IF it.res # "Ok" THEN [res |-> it.res] ELSE find_loop(name, it.dir_entries)

\* Dir::find on the directory d
find(d, name) == find_entries(name, DirIter_new(dir_read_chain_at(d.start_cluster)))

\* the bytes of path between the separators '/', empty ones included
RECURSIVE split(_, _)
split(path, cur) ==
    IF path = <<>> THEN <<cur>>
    ELSE IF Head(path) = 47 THEN <<cur>> \o split(Tail(path), <<>>)
    ELSE split(Tail(path), Append(cur, Head(path)))

\* the components of the segments segs; i is the place of the first one
RECURSIVE components_from(_, _, _)
components_from(segs, i, has_root) ==
    IF segs = <<>> THEN <<>>
    ELSE LET seg == Head(segs)
             rest == components_from(Tail(segs), i + 1, has_root)
         IN  IF seg = <<>> THEN rest
             ELSE IF seg = <<46>>
             THEN IF i = 1 /\ ~has_root THEN <<[kind |-> "CurDir", name |-> seg]>> \o rest
                  ELSE rest
             ELSE IF seg = <<46, 46>> THEN <<[kind |-> "ParentDir", name |-> seg]>> \o rest
             ELSE <<[kind |-> "Normal", name |-> seg]>> \o rest

\* Path::components
components(path) ==
    LET has_root == path # <<>> /\ Head(path) = 47
    IN  (IF has_root THEN <<[kind |-> "RootDir", name |-> <<47>>]>> ELSE <<>>)
            \o components_from(split(path, <<>>), 1, has_root)

\* Metadata::default()
DefaultMetadata ==
    [name |-> <<>>, size |-> 0, attributes |-> 0,
     created |-> [time |-> 0, date |-> 0], accessed |-> 0,
     last_modified |-> [time |-> 0, date |-> 0]]

\* the entry open starts at: the root directory
root_entry ==
    [kind |-> "Dir", start_cluster |-> vfat.root_dir_cluster, metadata |-> DefaultMetadata]

\* the for loop of open over the components comps, at the entry current_dir
RECURSIVE open_loop(_, _)
open_loop(comps, current_dir) ==
    IF comps = <<>> THEN [res |-> "Ok", entry |-> current_dir]
    ELSE IF Head(comps).kind # "Normal" THEN open_loop(Tail(comps), current_dir)
    ELSE IF current_dir.kind # "Dir" THEN [res |-> "InvalidInput"]
    ELSE LET f == find(current_dir, Head(comps).name)
         IN  IF f.res # "Ok" THEN f ELSE open_loop(Tail(comps), f.entry)

\* <&Shared<VFat> as FileSystem>::open
open(path) == open_loop(components(path), root_entry)

----------------------------------------------------------------------------
(* One lookup on a volume of two directories: find on the root directory,   *)
(* or open of a path.  The device holds, for the start cluster of each       *)
(* directory, the records read_chain returns for it                          *)

\* "readme  " "txt": a second file whose name differs from README.TXT in case
RecReadmeLower ==
    RegularRecord(<<114, 101, 97, 100, 109, 101, 32, 32>>, <<116, 120, 116>>, 32, 2, 4)
\* "INNER   " "TXT", a file of the subdirectory
RecInner ==
    RegularRecord(<<73, 78, 78, 69, 82, 32, 32, 32>>, <<84, 88, 84>>, 32, 2, 1)

OpenRecords == { RecReadme, RecReadmeLower, RecSub, RecEnd, RecDeleted, RecLfn1 }

\* the directories of up to MaxDirRecords records
RootDirs == UNION { [1..n -> OpenRecords] : n \in 0..MaxDirRecords }
\* the subdirectory SUB holds INNER.TXT, or nothing
SubDirs == { <<RecInner, RecEnd>>, <<RecEnd>> }

\* the names looked up: "readme.txt", "README.TXT", "sub", "nofile", "longfilename.",
\* and the two bytes 'f', 0xFF, which are not UTF-8
LookupNames ==
    { <<114, 101, 97, 100, 109, 101, 46, 116, 120, 116>>,
      <<82, 69, 65, 68, 77, 69, 46, 84, 88, 84>>,
      <<115, 117, 98>>,
      <<110, 111, 102, 105, 108, 101>>,
      <<108, 111, 110, 103, 102, 105, 108, 101, 110, 97, 109, 101, 46>>,
      <<102, 255>> }

\* the paths opened: "/", "/README.TXT", "/readme.txt", "/sub/inner.txt", "/SUB/INNER.TXT",
\* "/README.TXT/x", "/nofile/x", "/sub/nofile", "//sub/./inner.txt/", "/sub/../readme.txt"
Paths ==
    { <<47>>,
      <<47, 82, 69, 65, 68, 77, 69, 46, 84, 88, 84>>,
      <<47, 114, 101, 97, 100, 109, 101, 46, 116, 120, 116>>,
      <<47, 115, 117, 98, 47, 105, 110, 110, 101, 114, 46, 116, 120, 116>>,
      <<47, 83, 85, 66, 47, 73, 78, 78, 69, 82, 46, 84, 88, 84>>,
      <<47, 82, 69, 65, 68, 77, 69, 46, 84, 88, 84, 47, 120>>,
      <<47, 110, 111, 102, 105, 108, 101, 47, 120>>,
      <<47, 115, 117, 98, 47, 110, 111, 102, 105, 108, 101>>,
      <<47, 47, 115, 117, 98, 47, 46, 47, 105, 110, 110, 101, 114, 46, 116, 120, 116, 47>>,
      <<47, 115, 117, 98, 47, 46, 46, 47, 114, 101, 97, 100, 109, 101, 46, 116, 120, 116>> }

InitOpen ==
    /\ \E root \in RootDirs, sub \in SubDirs :
          disk = [c \in {2, 3} |-> IF c = 2 THEN root ELSE sub]
    /\ vfat = [root_dir_cluster |-> 2]
    /\ fault = NoFault
    /\ partition = NoPartition
    /\ cache = <<>>
    /\ chain = IdleChain
    /\ dir = NoDir
    /\ file = NoFile
    /\ last = NoCall
    /\ hist = [mutOk |-> {}, inserted |-> {}]

\* Dir::find on the root directory
Find ==
    /\ last = NoCall
    /\ \E name \in LookupNames :
          \E r \in {find(root_entry, name)} :
              last' = [op |-> "find", name |-> name, res |-> r.res,
                       entry |-> IF r.res = "Ok" THEN r.entry ELSE <<>>]
    /\ UNCHANGED <<dir, disk, fault, partition, cache, vfat, chain, file, hist>>

\* <&Shared<VFat> as FileSystem>::open
Open ==
    /\ last = NoCall
    /\ \E path \in Paths :
          \E r \in {open(path)} :
              last' = [op |-> "open", path |-> path, res |-> r.res,
                       entry |-> IF r.res = "Ok" THEN r.entry ELSE <<>>]
    /\ UNCHANGED <<dir, disk, fault, partition, cache, vfat, chain, file, hist>>

NextOpen == Find \/ Open

SpecOpen == InitOpen /\ [][NextOpen]_vars

\* the entries the iterator yields from the records dir_entries, up to the
\* call that returns no Entry
RECURSIVE C22_Entries(_)
C22_Entries(dir_entries) ==
    LET r == dir_next(dir_entries)
    IN  IF r.res = "Some" THEN <<r.entry>> \o C22_Entries(r.dir_entries) ELSE <<>>

\* the entries of the directory that starts at cluster, in on-disk order
C22_Listing(cluster) == C22_Entries(Reverse(disk[cluster]))

\* a name with its ASCII capital letters made small
C22_Fold(chars) ==
    [i \in 1..Len(chars) |-> IF chars[i] \in 65..90 THEN chars[i] + 32 ELSE chars[i]]

\* the places of the entries of listing whose name equals chars under ASCII
\* case folding
C22_Matches(listing, chars) ==
    { i \in 1..Len(listing) : C22_Fold(listing[i].metadata.name) = C22_Fold(chars) }

\* the result of a lookup of chars in listing, as stated
C22_Lookup(listing, chars) ==
    LET m == C22_Matches(listing, chars)
    IN  IF m = {} THEN [res |-> "NotFound"]
        ELSE [res |-> "Ok", entry |-> listing[CHOOSE i \in m : \A j \in m : i <= j]]

\* C22: find of a UTF-8 name returns the first entry of the directory, in
\* on-disk order, whose name equals it under ASCII case folding (hence the
\* same entry for names that differ in the case of ASCII letters only), and
\* fails with NotFound when no entry matches.
C22_FindFirstMatch ==
    (last.op = "find" /\ to_str(last.name).some) =>
        LET exp == C22_Lookup(C22_Listing(vfat.root_dir_cluster), to_str(last.name).chars)
        IN  /\ last.res = exp.res
            /\ exp.res = "Ok" => last.entry = exp.entry

\* C23: find of a name that is not valid UTF-8 fails with InvalidInput,
\* whatever the directory holds and also when it yields no entry.
C23_InvalidName ==
    (last.op = "find" /\ ~to_str(last.name).some) => last.res = "InvalidInput"

C24_IsNormal(c) == c.kind = "Normal"

\* the entry reached from current by the names left, as stated
RECURSIVE C24_Resolve(_, _)
C24_Resolve(names, current) ==
    IF names = <<>> THEN [res |-> "Ok", entry |-> current]
    ELSE IF current.kind = "File" THEN [res |-> "InvalidInput"]
    ELSE LET f == C22_Lookup(C22_Listing(current.start_cluster),
                             to_str(Head(names).name).chars)
         IN  IF f.res # "Ok" THEN f ELSE C24_Resolve(Tail(names), f.entry)

\* C24: open walks the normal components of the path from the root
\* directory, left to right: InvalidInput as soon as a component is to be
\* looked up in a File, NotFound as soon as one matches no entry of the
\* current directory, else the entry the last component reaches; a path
\* without normal components gives the root directory, which lists no entry
\* when it holds an end marker alone.
C24_OpenWalks ==
    last.op = "open" =>
        LET names == SelectSeq(components(last.path), C24_IsNormal)
            exp == C24_Resolve(names, root_entry)
        IN  /\ last.res = exp.res
            /\ exp.res = "Ok" => last.entry = exp.entry
            /\ names = <<>> =>
                  /\ last.entry = root_entry
                  /\ disk[vfat.root_dir_cluster] = <<RecEnd>> =>
                        C22_Listing(last.entry.start_cluster) = <<>>

====
